---- MODULE Spec2Model ----
(***************************************************************************)
(* Error classification (error/s2n_errno.h) and the TLS alert engine       *)
(* (tls/s2n_alerts.c) of s2n: the error enumeration and its categories,    *)
(* the inbound alert reassembly and dispatch, the warning/fatal decision   *)
(* and the closing side effects on a connection.                           *)
(***************************************************************************)
EXTENDS Integers, Sequences, FiniteSets, TLC

VARIABLES
    conn,       \* struct s2n_connection: the fields the alert engine reads and writes
    cache,      \* the calls made to config->cache_delete so far, in order
    last,       \* the last call on the connection: the state it started from, its
                \* argument, its return value and the error it raised
    whole,      \* a second connection fed the unfragmented alert (SpecFrag only)
    sent,       \* the alerts the record layer has taken out of the outgoing
                \* slots and written to the peer, in order
    alerts_raised   \* how many calls on the connection have raised S2N_ERR_ALERT

vars == << conn, cache, last, whole, sent, alerts_raised >>

----------------------------------------------------------------------------
(* Error code registry: error/s2n_errno.h *)

S2N_ERR_NUM_VALUE_BITS == 26

\* The error types of api/s2n.h, in their declared order.
S2N_ERR_T_OK == 0
S2N_ERR_T_IO == 1
S2N_ERR_T_CLOSED == 2
S2N_ERR_T_BLOCKED == 3
S2N_ERR_T_ALERT == 4
S2N_ERR_T_PROTO == 5
S2N_ERR_T_INTERNAL == 6
S2N_ERR_T_USAGE == 7

\* x << S2N_ERR_NUM_VALUE_BITS
S2N_ERR_T_START(type) == type * (2 ^ S2N_ERR_NUM_VALUE_BITS)

\* The enum s2n_error, section by section: each section starts at its
\* S2N_ERR_T_*_START and numbers its constants consecutively.
s2n_error_OK ==
    << "S2N_ERR_OK", "S2N_ERR_T_OK_END" >>

s2n_error_IO ==
    << "S2N_ERR_IO", "S2N_ERR_T_IO_END" >>

s2n_error_CLOSED ==
    << "S2N_ERR_CLOSED", "S2N_ERR_T_CLOSED_END" >>

s2n_error_BLOCKED ==
    << "S2N_ERR_IO_BLOCKED", "S2N_ERR_ASYNC_BLOCKED", "S2N_ERR_EARLY_DATA_BLOCKED",
       "S2N_ERR_APP_DATA_BLOCKED", "S2N_ERR_T_BLOCKED_END" >>

s2n_error_ALERT ==
    << "S2N_ERR_ALERT", "S2N_ERR_T_ALERT_END" >>

s2n_error_PROTO ==
    << "S2N_ERR_ENCRYPT", "S2N_ERR_DECRYPT", "S2N_ERR_BAD_MESSAGE",
       "S2N_ERR_UNEXPECTED_CERT_REQUEST", "S2N_ERR_KEY_INIT", "S2N_ERR_KEY_DESTROY",
       "S2N_ERR_DH_SERIALIZING", "S2N_ERR_DH_SHARED_SECRET", "S2N_ERR_DH_WRITING_PUBLIC_KEY",
       "S2N_ERR_DH_FAILED_SIGNING", "S2N_ERR_DH_COPYING_PARAMETERS",
       "S2N_ERR_DH_GENERATING_PARAMETERS", "S2N_ERR_CIPHER_NOT_SUPPORTED",
       "S2N_ERR_NO_APPLICATION_PROTOCOL", "S2N_ERR_FALLBACK_DETECTED",
       "S2N_ERR_HASH_DIGEST_FAILED", "S2N_ERR_HASH_INIT_FAILED", "S2N_ERR_HASH_UPDATE_FAILED",
       "S2N_ERR_HASH_COPY_FAILED", "S2N_ERR_HASH_WIPE_FAILED", "S2N_ERR_HASH_NOT_READY",
       "S2N_ERR_ALLOW_MD5_FOR_FIPS_FAILED", "S2N_ERR_DECODE_CERTIFICATE",
       "S2N_ERR_DECODE_PRIVATE_KEY", "S2N_ERR_INVALID_HELLO_RETRY",
       "S2N_ERR_INVALID_SIGNATURE_ALGORITHM", "S2N_ERR_INVALID_SIGNATURE_SCHEME",
       "S2N_ERR_NO_VALID_SIGNATURE_SCHEME", "S2N_ERR_CBC_VERIFY",
       "S2N_ERR_DH_COPYING_PUBLIC_KEY", "S2N_ERR_SIGN", "S2N_ERR_VERIFY_SIGNATURE",
       "S2N_ERR_ECDHE_GEN_KEY", "S2N_ERR_ECDHE_SHARED_SECRET",
       "S2N_ERR_ECDHE_UNSUPPORTED_CURVE", "S2N_ERR_ECDSA_UNSUPPORTED_CURVE",
       "S2N_ERR_ECDHE_SERIALIZING", "S2N_ERR_KEM_UNSUPPORTED_PARAMS",
       "S2N_ERR_SHUTDOWN_RECORD_TYPE", "S2N_ERR_SHUTDOWN_CLOSED",
       "S2N_ERR_NON_EMPTY_RENEGOTIATION_INFO", "S2N_ERR_RECORD_LIMIT", "S2N_ERR_CERT_UNTRUSTED",
       "S2N_ERR_CERT_REVOKED", "S2N_ERR_CERT_NOT_YET_VALID", "S2N_ERR_CERT_EXPIRED",
       "S2N_ERR_CERT_TYPE_UNSUPPORTED", "S2N_ERR_CERT_INVALID",
       "S2N_ERR_CERT_MAX_CHAIN_DEPTH_EXCEEDED", "S2N_ERR_CERT_REJECTED",
       "S2N_ERR_CRL_LOOKUP_FAILED", "S2N_ERR_CRL_SIGNATURE", "S2N_ERR_CRL_ISSUER",
       "S2N_ERR_CRL_UNHANDLED_CRITICAL_EXTENSION", "S2N_ERR_CRL_INVALID_THIS_UPDATE",
       "S2N_ERR_CRL_INVALID_NEXT_UPDATE", "S2N_ERR_CRL_NOT_YET_VALID", "S2N_ERR_CRL_EXPIRED",
       "S2N_ERR_INVALID_MAX_FRAG_LEN", "S2N_ERR_MAX_FRAG_LEN_MISMATCH",
       "S2N_ERR_PROTOCOL_VERSION_UNSUPPORTED", "S2N_ERR_BAD_KEY_SHARE", "S2N_ERR_CANCELLED",
       "S2N_ERR_PROTOCOL_DOWNGRADE_DETECTED", "S2N_ERR_MAX_INNER_PLAINTEXT_SIZE",
       "S2N_ERR_RECORD_STUFFER_SIZE", "S2N_ERR_FRAGMENT_LENGTH_TOO_LARGE",
       "S2N_ERR_FRAGMENT_LENGTH_TOO_SMALL", "S2N_ERR_RECORD_STUFFER_NEEDS_DRAINING",
       "S2N_ERR_MISSING_EXTENSION", "S2N_ERR_UNSUPPORTED_EXTENSION",
       "S2N_ERR_DUPLICATE_EXTENSION", "S2N_ERR_MAX_EARLY_DATA_SIZE",
       "S2N_ERR_EARLY_DATA_TRIAL_DECRYPT", "S2N_ERR_NO_RENEGOTIATION", "S2N_ERR_KTLS_KEYUPDATE",
       "S2N_ERR_T_PROTO_END" >>

s2n_error_INTERNAL ==
    << "S2N_ERR_MADVISE", "S2N_ERR_ALLOC", "S2N_ERR_MLOCK", "S2N_ERR_MUNLOCK", "S2N_ERR_FSTAT",
       "S2N_ERR_OPEN", "S2N_ERR_MMAP", "S2N_ERR_ATEXIT", "S2N_ERR_NOMEM", "S2N_ERR_NULL",
       "S2N_ERR_SAFETY", "S2N_ERR_INITIALIZED", "S2N_ERR_NOT_INITIALIZED",
       "S2N_ERR_RANDOM_UNINITIALIZED", "S2N_ERR_OPEN_RANDOM", "S2N_ERR_RESIZE_STATIC_STUFFER",
       "S2N_ERR_RESIZE_TAINTED_STUFFER", "S2N_ERR_STUFFER_OUT_OF_DATA",
       "S2N_ERR_STUFFER_IS_FULL", "S2N_ERR_STUFFER_NOT_FOUND",
       "S2N_ERR_STUFFER_HAS_UNPROCESSED_DATA", "S2N_ERR_HASH_INVALID_ALGORITHM",
       "S2N_ERR_PRF_INVALID_ALGORITHM", "S2N_ERR_PRF_INVALID_SEED", "S2N_ERR_PRF_DERIVE",
       "S2N_ERR_P_HASH_INVALID_ALGORITHM", "S2N_ERR_P_HASH_INIT_FAILED",
       "S2N_ERR_P_HASH_UPDATE_FAILED", "S2N_ERR_P_HASH_FINAL_FAILED",
       "S2N_ERR_P_HASH_WIPE_FAILED", "S2N_ERR_HMAC_INVALID_ALGORITHM",
       "S2N_ERR_HKDF_OUTPUT_SIZE", "S2N_ERR_HKDF", "S2N_ERR_ALERT_PRESENT",
       "S2N_ERR_HANDSHAKE_STATE", "S2N_ERR_SHUTDOWN_PAUSED", "S2N_ERR_SIZE_MISMATCH",
       "S2N_ERR_DRBG", "S2N_ERR_DRBG_REQUEST_SIZE", "S2N_ERR_KEY_CHECK", "S2N_ERR_CIPHER_TYPE",
       "S2N_ERR_MAP_DUPLICATE", "S2N_ERR_MAP_IMMUTABLE", "S2N_ERR_MAP_MUTABLE",
       "S2N_ERR_MAP_INVALID_MAP_SIZE", "S2N_ERR_INITIAL_HMAC", "S2N_ERR_INVALID_NONCE_TYPE",
       "S2N_ERR_UNIMPLEMENTED", "S2N_ERR_HANDSHAKE_UNREACHABLE", "S2N_ERR_READ",
       "S2N_ERR_WRITE", "S2N_ERR_BAD_FD", "S2N_ERR_RDRAND_FAILED",
       "S2N_ERR_FAILED_CACHE_RETRIEVAL", "S2N_ERR_X509_TRUST_STORE",
       "S2N_ERR_UNKNOWN_PROTOCOL_VERSION", "S2N_ERR_NULL_CN_NAME", "S2N_ERR_NULL_SANS",
       "S2N_ERR_CLIENT_HELLO_VERSION", "S2N_ERR_CLIENT_PROTOCOL_VERSION",
       "S2N_ERR_SERVER_PROTOCOL_VERSION", "S2N_ERR_ACTUAL_PROTOCOL_VERSION",
       "S2N_ERR_POLLING_FROM_SOCKET", "S2N_ERR_RECV_STUFFER_FROM_CONN",
       "S2N_ERR_SEND_STUFFER_TO_CONN", "S2N_ERR_PRECONDITION_VIOLATION",
       "S2N_ERR_POSTCONDITION_VIOLATION", "S2N_ERR_INTEGER_OVERFLOW", "S2N_ERR_ARRAY_INDEX_OOB",
       "S2N_ERR_FREE_STATIC_BLOB", "S2N_ERR_RESIZE_STATIC_BLOB",
       "S2N_ERR_NO_SUPPORTED_LIBCRYPTO_API", "S2N_ERR_RECORD_LENGTH_TOO_LARGE",
       "S2N_ERR_SET_DUPLICATE_VALUE", "S2N_ERR_INVALID_PARSED_EXTENSIONS",
       "S2N_ERR_ASYNC_CALLBACK_FAILED", "S2N_ERR_ASYNC_MORE_THAN_ONE", "S2N_ERR_PQ_CRYPTO",
       "S2N_ERR_INVALID_CERT_STATE", "S2N_ERR_INVALID_EARLY_DATA_STATE",
       "S2N_ERR_PKEY_CTX_INIT", "S2N_ERR_FORK_DETECTION_INIT",
       "S2N_ERR_RETRIEVE_FORK_GENERATION_NUMBER", "S2N_ERR_LIBCRYPTO_VERSION_NUMBER_MISMATCH",
       "S2N_ERR_LIBCRYPTO_VERSION_NAME_MISMATCH", "S2N_ERR_OSSL_PROVIDER",
       "S2N_ERR_TEST_ASSERTION", "S2N_ERR_T_INTERNAL_END" >>

s2n_error_USAGE ==
    << "S2N_ERR_NO_ALERT", "S2N_ERR_SERVER_MODE", "S2N_ERR_CLIENT_MODE",
       "S2N_ERR_CLIENT_MODE_DISABLED", "S2N_ERR_TOO_MANY_CERTIFICATES",
       "S2N_ERR_TOO_MANY_SIGNATURE_SCHEMES", "S2N_ERR_CLIENT_AUTH_NOT_SUPPORTED_IN_FIPS_MODE",
       "S2N_ERR_INVALID_BASE64", "S2N_ERR_INVALID_HEX", "S2N_ERR_INVALID_PEM",
       "S2N_ERR_DH_PARAMS_CREATE", "S2N_ERR_DH_TOO_SMALL", "S2N_ERR_DH_PARAMETER_CHECK",
       "S2N_ERR_INVALID_PKCS3", "S2N_ERR_NO_CERTIFICATE_IN_PEM", "S2N_ERR_SERVER_NAME_TOO_LONG",
       "S2N_ERR_NUM_DEFAULT_CERTIFICATES",
       "S2N_ERR_MULTIPLE_DEFAULT_CERTIFICATES_PER_AUTH_TYPE",
       "S2N_ERR_INVALID_CIPHER_PREFERENCES", "S2N_ERR_INVALID_APPLICATION_PROTOCOL",
       "S2N_ERR_KEY_MISMATCH", "S2N_ERR_SEND_SIZE", "S2N_ERR_CORK_SET_ON_UNMANAGED",
       "S2N_ERR_UNRECOGNIZED_EXTENSION", "S2N_ERR_EXTENSION_NOT_RECEIVED",
       "S2N_ERR_INVALID_SCT_LIST", "S2N_ERR_INVALID_OCSP_RESPONSE",
       "S2N_ERR_UPDATING_EXTENSION", "S2N_ERR_INVALID_SERIALIZED_SESSION_STATE",
       "S2N_ERR_SERIALIZED_SESSION_STATE_TOO_LONG", "S2N_ERR_SESSION_ID_TOO_LONG",
       "S2N_ERR_CLIENT_AUTH_NOT_SUPPORTED_IN_SESSION_RESUMPTION_MODE",
       "S2N_ERR_INVALID_TICKET_KEY_LENGTH", "S2N_ERR_INVALID_TICKET_KEY_NAME_OR_NAME_LENGTH",
       "S2N_ERR_TICKET_KEY_NOT_UNIQUE", "S2N_ERR_TICKET_KEY_LIMIT",
       "S2N_ERR_NO_TICKET_ENCRYPT_DECRYPT_KEY", "S2N_ERR_ENCRYPT_DECRYPT_KEY_SELECTION_FAILED",
       "S2N_ERR_KEY_USED_IN_SESSION_TICKET_NOT_FOUND", "S2N_ERR_SENDING_NST",
       "S2N_ERR_INVALID_DYNAMIC_THRESHOLD", "S2N_ERR_INVALID_ARGUMENT",
       "S2N_ERR_NOT_IN_UNIT_TEST", "S2N_ERR_NOT_IN_TEST", "S2N_ERR_UNSUPPORTED_CPU",
       "S2N_ERR_SESSION_ID_TOO_SHORT", "S2N_ERR_CONNECTION_CACHING_DISALLOWED",
       "S2N_ERR_SESSION_TICKET_NOT_SUPPORTED", "S2N_ERR_OCSP_NOT_SUPPORTED",
       "S2N_ERR_INVALID_SIGNATURE_ALGORITHMS_PREFERENCES", "S2N_ERR_RSA_PSS_NOT_SUPPORTED",
       "S2N_ERR_INVALID_ECC_PREFERENCES", "S2N_ERR_INVALID_SECURITY_POLICY",
       "S2N_ERR_INVALID_KEM_PREFERENCES", "S2N_ERR_ASYNC_ALREADY_PERFORMED",
       "S2N_ERR_ASYNC_NOT_PERFORMED", "S2N_ERR_ASYNC_WRONG_CONNECTION",
       "S2N_ERR_ASYNC_ALREADY_APPLIED", "S2N_ERR_UNSUPPORTED_WITH_QUIC",
       "S2N_ERR_DUPLICATE_PSK_IDENTITIES", "S2N_ERR_OFFERED_PSKS_TOO_LONG",
       "S2N_ERR_INVALID_SESSION_TICKET", "S2N_ERR_REENTRANCY", "S2N_ERR_INVALID_STATE",
       "S2N_ERR_EARLY_DATA_NOT_ALLOWED", "S2N_ERR_NO_CERT_FOUND", "S2N_ERR_CERT_NOT_VALIDATED",
       "S2N_ERR_NO_PRIVATE_KEY", "S2N_ERR_PSK_MODE", "S2N_ERR_X509_EXTENSION_VALUE_NOT_FOUND",
       "S2N_ERR_INVALID_X509_EXTENSION_TYPE", "S2N_ERR_INSUFFICIENT_MEM_SIZE",
       "S2N_ERR_KEYING_MATERIAL_EXPIRED", "S2N_ERR_SECRET_SCHEDULE_STATE",
       "S2N_ERR_CERT_OWNERSHIP", "S2N_ERR_INTERNAL_LIBCRYPTO_ERROR",
       "S2N_ERR_HANDSHAKE_NOT_COMPLETE", "S2N_ERR_KTLS_MANAGED_IO",
       "S2N_ERR_KTLS_UNSUPPORTED_PLATFORM", "S2N_ERR_KTLS_UNSUPPORTED_CONN",
       "S2N_ERR_KTLS_ENABLE", "S2N_ERR_KTLS_BAD_CMSG", "S2N_ERR_KTLS_RENEG", "S2N_ERR_ATOMIC",
       "S2N_ERR_KTLS_KEY_LIMIT", "S2N_ERR_SECURITY_POLICY_INCOMPATIBLE_CERT",
       "S2N_ERR_T_USAGE_END" >>

s2n_error ==
    << [type |-> S2N_ERR_T_OK, names |-> s2n_error_OK],
       [type |-> S2N_ERR_T_IO, names |-> s2n_error_IO],
       [type |-> S2N_ERR_T_CLOSED, names |-> s2n_error_CLOSED],
       [type |-> S2N_ERR_T_BLOCKED, names |-> s2n_error_BLOCKED],
       [type |-> S2N_ERR_T_ALERT, names |-> s2n_error_ALERT],
       [type |-> S2N_ERR_T_PROTO, names |-> s2n_error_PROTO],
       [type |-> S2N_ERR_T_INTERNAL, names |-> s2n_error_INTERNAL],
       [type |-> S2N_ERR_T_USAGE, names |-> s2n_error_USAGE] >>

\* As s2n_error_value, but numbering the enum from 0 without restarting at
\* each section's S2N_ERR_T_*_START.
s2n_error_value_running_on(name) ==
    LET s == CHOOSE i \in 1..Len(s2n_error) :
                 \E k \in 1..Len(s2n_error[i].names) : s2n_error[i].names[k] = name
        k == CHOOSE j \in 1..Len(s2n_error[s].names) : s2n_error[s].names[j] = name
        before[i \in 0..Len(s2n_error)] ==
            IF i = 0 THEN 0 ELSE before[i - 1] + Len(s2n_error[i].names)
    IN  before[s - 1] + (k - 1)

\* The integer value the compiler gives the enum constant `name`.
s2n_error_value(name) ==
    LET s == CHOOSE i \in 1..Len(s2n_error) :
                 \E k \in 1..Len(s2n_error[i].names) : s2n_error[i].names[k] = name
        k == CHOOSE j \in 1..Len(s2n_error[s].names) : s2n_error[s].names[j] = name
    IN  S2N_ERR_T_START(s2n_error[s].type) + (k - 1)

\* error >> S2N_ERR_NUM_VALUE_BITS
s2n_error_get_type(error) == error \div (2 ^ S2N_ERR_NUM_VALUE_BITS)

S2N_ERR_ALERT == s2n_error_value("S2N_ERR_ALERT")
S2N_ERR_BAD_MESSAGE == s2n_error_value("S2N_ERR_BAD_MESSAGE")
S2N_ERR_ALERT_PRESENT == s2n_error_value("S2N_ERR_ALERT_PRESENT")
S2N_ERR_SAFETY == s2n_error_value("S2N_ERR_SAFETY")
S2N_ERR_STUFFER_OUT_OF_DATA == s2n_error_value("S2N_ERR_STUFFER_OUT_OF_DATA")
S2N_ERR_OK == s2n_error_value("S2N_ERR_OK")
S2N_ERR_MISSING_EXTENSION == s2n_error_value("S2N_ERR_MISSING_EXTENSION")
S2N_ERR_NO_RENEGOTIATION == s2n_error_value("S2N_ERR_NO_RENEGOTIATION")
S2N_ERR_UNIMPLEMENTED == s2n_error_value("S2N_ERR_UNIMPLEMENTED")
S2N_ERR_NO_ALERT == s2n_error_value("S2N_ERR_NO_ALERT")

\* S2N_ERROR_IS_BLOCKING(x)
S2N_ERROR_IS_BLOCKING(x) == s2n_error_get_type(x) = S2N_ERR_T_BLOCKED

----------------------------------------------------------------------------
(* Constants of the alert protocol *)

S2N_SUCCESS == 0
S2N_FAILURE == 0 - 1

S2N_TLS_ALERT_LEVEL_WARNING == 1
S2N_TLS_ALERT_LEVEL_FATAL == 2

S2N_ALERT_LENGTH == 2

S2N_TLS_ALERT_CLOSE_NOTIFY == 0
S2N_TLS_ALERT_UNEXPECTED_MESSAGE == 10
S2N_TLS_ALERT_HANDSHAKE_FAILURE == 40
S2N_TLS_ALERT_PROTOCOL_VERSION == 70
S2N_TLS_ALERT_INTERNAL_ERROR == 80
S2N_TLS_ALERT_USER_CANCELED == 90
S2N_TLS_ALERT_NO_RENEGOTIATION == 100
S2N_TLS_ALERT_MISSING_EXTENSION == 109

S2N_SSLv3 == 30
S2N_TLS10 == 31
S2N_TLS11 == 32
S2N_TLS12 == 33
S2N_TLS13 == 34

S2N_ALERT_FAIL_ON_WARNINGS == 0
S2N_ALERT_IGNORE_WARNINGS == 1

----------------------------------------------------------------------------
(* Bounds of the model *)

\* The longest record payload the record layer hands over in conn->in.
MaxIn == 2

\* The bytes that arrive: both levels, a level that is neither, and the
\* descriptions the engine tells apart (0 close_notify, 90 user_canceled,
\* 100 no_renegotiation); 1 and 2 stand for any other description.
Bytes ==
    { 0, S2N_TLS_ALERT_LEVEL_WARNING, S2N_TLS_ALERT_LEVEL_FATAL,
      S2N_TLS_ALERT_USER_CANCELED, S2N_TLS_ALERT_NO_RENEGOTIATION }

ProtocolVersions == { S2N_SSLv3, S2N_TLS12, S2N_TLS13 }

AlertBehaviors == { S2N_ALERT_FAIL_ON_WARNINGS, S2N_ALERT_IGNORE_WARNINGS }

\* The session id bytes held in conn->session_id.
SessionId == << 171 >>

SeqsUpTo(S, n) == UNION { [1..k -> S] : k \in 0..n }

----------------------------------------------------------------------------
(* Stuffers: only the bytes between the read and the write cursor matter *)

MIN(a, b) == IF a < b THEN a ELSE b

s2n_stuffer_data_available(stuffer) == Len(stuffer)

\* s2n_stuffer_copy(&conn->in, &conn->alert_in, len): moves len bytes from the
\* input to the reassembly buffer; fails when the input holds fewer.
s2n_stuffer_copy(c, len) ==
    IF len > s2n_stuffer_data_available(c.in)
       \/ s2n_stuffer_data_available(c.alert_in) + len > S2N_ALERT_LENGTH
    THEN [ok |-> FALSE, conn |-> c]
    ELSE [ok |-> TRUE,
          conn |-> [c EXCEPT !.alert_in = c.alert_in \o SubSeq(c.in, 1, len),
                             !.in = SubSeq(c.in, len + 1, Len(c.in))]]

\* s2n_stuffer_wipe(&conn->alert_in)
s2n_stuffer_wipe(c) == [c EXCEPT !.alert_in = << >>]

----------------------------------------------------------------------------
(* Collaborators of the connection *)

s2n_connection_is_quic_enabled(c) == c.quic_enabled

s2n_connection_get_protocol_version(c) == c.actual_protocol_version

s2n_allowed_to_cache_connection(c) == c.allowed_to_cache

\* One call of conn->config->cache_delete(conn, data, session_id, session_id_len):
\* the key it was given, the closed flag the connection had when it was called
\* and what it returned.
cache_delete(c, result) ==
    [key |-> SubSeq(c.session_id, 1, c.session_id_len),
     closed |-> c.closed,
     result |-> result]

----------------------------------------------------------------------------
(* tls/s2n_alerts.c *)

\* As s2n_alerts_supported, but not asking whether QUIC carries the alerts.
s2n_alerts_supported_always(c) == TRUE

s2n_alerts_supported(c) == ~s2n_connection_is_quic_enabled(c)

\* As s2n_process_as_warning, but taking every level that is not fatal for a warning.
s2n_process_as_warning_not_fatal(c, level, type) ==
    IF s2n_connection_get_protocol_version(c) < S2N_TLS13
    THEN level # S2N_TLS_ALERT_LEVEL_FATAL
         /\ c.alert_behavior = S2N_ALERT_IGNORE_WARNINGS
    ELSE type = S2N_TLS_ALERT_USER_CANCELED

\* As s2n_process_as_warning, but with TLS1.3 on the side of the level check.
s2n_process_as_warning_upto_tls13(c, level, type) ==
    IF s2n_connection_get_protocol_version(c) <= S2N_TLS13
    THEN level = S2N_TLS_ALERT_LEVEL_WARNING
         /\ c.alert_behavior = S2N_ALERT_IGNORE_WARNINGS
    ELSE type = S2N_TLS_ALERT_USER_CANCELED

\* As s2n_process_as_warning, but without the look at alert_behavior.
s2n_process_as_warning_any_behavior(c, level, type) ==
    IF s2n_connection_get_protocol_version(c) < S2N_TLS13
    THEN level = S2N_TLS_ALERT_LEVEL_WARNING
    ELSE type = S2N_TLS_ALERT_USER_CANCELED

s2n_process_as_warning(c, level, type) ==
    IF s2n_connection_get_protocol_version(c) < S2N_TLS13
    THEN level = S2N_TLS_ALERT_LEVEL_WARNING
         /\ c.alert_behavior = S2N_ALERT_IGNORE_WARNINGS
    ELSE type = S2N_TLS_ALERT_USER_CANCELED

\* What a call returns: the connection it leaves, its return value, the error
\* it raised (s2n_errno is written only when it fails) and the cache_delete
\* calls it made.
Return(c, deleted) ==
    [conn |-> c, rc |-> S2N_SUCCESS, err |-> S2N_ERR_OK, deleted |-> deleted]

Bail(c, error, deleted) ==
    [conn |-> c, rc |-> S2N_FAILURE, err |-> error, deleted |-> deleted]

bytes_required(c) ==
    IF s2n_stuffer_data_available(c.alert_in) = 1 THEN 1 ELSE 2

\* As bytes_to_read, but without the MIN against the input that is there.
bytes_to_read_without_MIN(c) == bytes_required(c)

bytes_to_read(c) ==
    MIN(bytes_required(c), s2n_stuffer_data_available(c.in))

\* The dispatch of a complete alert, lines 217-240; c holds the two bytes in
\* alert_in (alert_in_data[0] is alert_in[1], alert_in_data[1] is alert_in[2]).

\* As s2n_process_close_notify, but recording the close_notify without
\* closing the connection.
s2n_process_close_notify_not_closed(c) ==
    Return([c EXCEPT !.close_notify_received = TRUE], << >>)

\* Lines 219-224: close notifications are handled as shutdowns.
s2n_process_close_notify(c) ==
    Return([c EXCEPT !.closed = TRUE, !.close_notify_received = TRUE], << >>)

\* Lines 226-230: a warning that is ignored.
\* As s2n_process_ignored_warning, but leaving the alert in the buffer.
s2n_process_ignored_warning_not_wiped(c) == Return(c, << >>)

s2n_process_ignored_warning(c) ==
    Return(s2n_stuffer_wipe(c), << >>)

\* Lines 232-239: every other alert is a fatal error.
\* As s2n_process_fatal_alert, but failing without marking the connection closed.
s2n_process_fatal_alert_not_closed(c, cb) ==
    LET deleted ==
            IF s2n_allowed_to_cache_connection(c) /\ c.session_id_len # 0
            THEN << cache_delete(c, cb) >>
            ELSE << >>
    IN  Bail(c, S2N_ERR_ALERT, deleted)

\* As s2n_process_fatal_alert, but closing before the session is expired.
s2n_process_fatal_alert_closed_first(c, cb) ==
    LET closed == [c EXCEPT !.closed = TRUE]
        deleted ==
            IF s2n_allowed_to_cache_connection(closed) /\ closed.session_id_len # 0
            THEN << cache_delete(closed, cb) >>
            ELSE << >>
    IN  Bail(closed, S2N_ERR_ALERT, deleted)

\* As s2n_process_fatal_alert, but guarding the callback: when cache_delete
\* fails the call returns its failure at once.
s2n_process_fatal_alert_guarded(c, cb) ==
    LET deleted ==
            IF s2n_allowed_to_cache_connection(c) /\ c.session_id_len # 0
            THEN << cache_delete(c, cb) >>
            ELSE << >>
    IN  IF deleted # << >> /\ cb # S2N_SUCCESS
        THEN Bail(c, S2N_ERR_SAFETY, deleted)
        ELSE Bail([c EXCEPT !.closed = TRUE], S2N_ERR_ALERT, deleted)

\* As s2n_process_fatal_alert, but wiping the reassembly buffer once the alert
\* has been handled.
s2n_process_fatal_alert_wiped(c, cb) ==
    LET deleted ==
            IF s2n_allowed_to_cache_connection(c) /\ c.session_id_len # 0
            THEN << cache_delete(c, cb) >>
            ELSE << >>
    IN  Bail(s2n_stuffer_wipe([c EXCEPT !.closed = TRUE]), S2N_ERR_ALERT, deleted)

s2n_process_fatal_alert(c, cb) ==
    LET deleted ==
            IF s2n_allowed_to_cache_connection(c) /\ c.session_id_len # 0
            THEN << cache_delete(c, cb) >>
            ELSE << >>
    IN  Bail([c EXCEPT !.closed = TRUE], S2N_ERR_ALERT, deleted)

\* As s2n_process_alert, but looking for close_notify in alert_in_data[0].
s2n_process_alert_by_level(c, cb) ==
    IF c.alert_in[1] = S2N_TLS_ALERT_CLOSE_NOTIFY
    THEN s2n_process_close_notify(c)
    ELSE IF s2n_process_as_warning(c, c.alert_in[1], c.alert_in[2])
    THEN s2n_process_ignored_warning(c)
    ELSE s2n_process_fatal_alert(c, cb)

s2n_process_alert(c, cb) ==
    IF c.alert_in[2] = S2N_TLS_ALERT_CLOSE_NOTIFY
    THEN s2n_process_close_notify(c)
    ELSE IF s2n_process_as_warning(c, c.alert_in[1], c.alert_in[2])
    THEN s2n_process_ignored_warning(c)
    ELSE s2n_process_fatal_alert(c, cb)

\* As s2n_process_alert_loop, but going on with the input after a warning
\* that was ignored.
RECURSIVE s2n_process_alert_loop_draining(_, _)
s2n_process_alert_loop_draining(c, cb) ==
    IF s2n_stuffer_data_available(c.in) = 0
    THEN Return(c, << >>)
    ELSE LET copied == s2n_stuffer_copy(c, bytes_to_read(c))
             processed == s2n_process_alert(copied.conn, cb)
         IN  IF ~copied.ok
             THEN Bail(c, S2N_ERR_STUFFER_OUT_OF_DATA, << >>)
             ELSE IF s2n_stuffer_data_available(copied.conn.alert_in) = 2
             THEN IF processed.rc = S2N_SUCCESS /\ processed.conn.alert_in = << >>
                  THEN s2n_process_alert_loop_draining(processed.conn, cb)
                  ELSE processed
             ELSE s2n_process_alert_loop_draining(copied.conn, cb)

\* The while loop of s2n_process_alert_fragment, lines 205-243.
RECURSIVE s2n_process_alert_loop(_, _)
s2n_process_alert_loop(c, cb) ==
    IF s2n_stuffer_data_available(c.in) = 0
    THEN Return(c, << >>)
    ELSE LET copied == s2n_stuffer_copy(c, bytes_to_read(c))
         IN  IF ~copied.ok
             THEN Bail(c, S2N_ERR_STUFFER_OUT_OF_DATA, << >>)
             ELSE IF s2n_stuffer_data_available(copied.conn.alert_in) = 2
             THEN s2n_process_alert(copied.conn, cb)
             ELSE s2n_process_alert_loop(copied.conn, cb)

\* As s2n_process_alert_fragment, but checking for a buffered alert first.
s2n_process_alert_fragment_present_first(c, cb) ==
    IF s2n_stuffer_data_available(c.alert_in) = 2
    THEN Bail(c, S2N_ERR_ALERT_PRESENT, << >>)
    ELSE IF s2n_stuffer_data_available(c.in) = 0
    THEN Bail(c, S2N_ERR_BAD_MESSAGE, << >>)
    ELSE IF ~s2n_alerts_supported(c)
    THEN Bail(c, S2N_ERR_BAD_MESSAGE, << >>)
    ELSE s2n_process_alert_loop(c, cb)

\* As s2n_process_alert_fragment, but discarding the alert that is still
\* buffered when it reports S2N_ERR_ALERT_PRESENT.
s2n_process_alert_fragment_discarding(c, cb) ==
    IF s2n_stuffer_data_available(c.in) = 0
    THEN Bail(c, S2N_ERR_BAD_MESSAGE, << >>)
    ELSE IF s2n_stuffer_data_available(c.alert_in) = 2
    THEN Bail(s2n_stuffer_wipe(c), S2N_ERR_ALERT_PRESENT, << >>)
    ELSE IF ~s2n_alerts_supported(c)
    THEN Bail(c, S2N_ERR_BAD_MESSAGE, << >>)
    ELSE s2n_process_alert_loop(c, cb)

s2n_process_alert_fragment(c, cb) ==
    IF s2n_stuffer_data_available(c.in) = 0
    THEN Bail(c, S2N_ERR_BAD_MESSAGE, << >>)
    ELSE IF s2n_stuffer_data_available(c.alert_in) = 2
    THEN Bail(c, S2N_ERR_ALERT_PRESENT, << >>)
    ELSE IF ~s2n_alerts_supported(c)
    THEN Bail(c, S2N_ERR_BAD_MESSAGE, << >>)
    ELSE s2n_process_alert_loop(c, cb)

\* As s2n_alerts_close_if_fatal, but without the check of the level.
s2n_alerts_close_if_fatal_any_level(c, alert) ==
    IF Len(alert) # S2N_ALERT_LENGTH
    THEN Bail(c, S2N_ERR_SAFETY, << >>)
    ELSE IF alert[2] = S2N_TLS_ALERT_NO_RENEGOTIATION
    THEN Return(c, << >>)
    ELSE Return([c EXCEPT !.closing = TRUE], << >>)

\* As s2n_alerts_close_if_fatal, but closing on the level byte: only an alert
\* of level fatal sets closing.
s2n_alerts_close_if_fatal_by_level(c, alert) ==
    IF Len(alert) # S2N_ALERT_LENGTH
    THEN Bail(c, S2N_ERR_SAFETY, << >>)
    ELSE IF alert[2] = S2N_TLS_ALERT_NO_RENEGOTIATION
    THEN IF alert[1] # S2N_TLS_ALERT_LEVEL_WARNING
         THEN Bail(c, S2N_ERR_SAFETY, << >>)
         ELSE Return(c, << >>)
    ELSE IF alert[1] = S2N_TLS_ALERT_LEVEL_FATAL
    THEN Return([c EXCEPT !.closing = TRUE], << >>)
    ELSE Return(c, << >>)

s2n_alerts_close_if_fatal(c, alert) ==
    IF Len(alert) # S2N_ALERT_LENGTH
    THEN Bail(c, S2N_ERR_SAFETY, << >>)
    ELSE IF alert[2] = S2N_TLS_ALERT_NO_RENEGOTIATION
    THEN IF alert[1] # S2N_TLS_ALERT_LEVEL_WARNING
         THEN Bail(c, S2N_ERR_SAFETY, << >>)
         ELSE Return(c, << >>)
    ELSE Return([c EXCEPT !.closing = TRUE], << >>)

----------------------------------------------------------------------------
(* Errors to alerts: src/tls/s2n_alerts.c, lines 33-134 and 172-196 *)

\* What a translation returns: whether it succeeded, the error it raised, and
\* what it wrote to *alert (nothing, or one alert description).
Translated(alert) == [rc |-> S2N_SUCCESS, err |-> S2N_ERR_OK, alert |-> << alert >>]

NotTranslated(error) == [rc |-> S2N_FAILURE, err |-> error, alert |-> << >>]

\* The errors listed with S2N_NO_ALERT in s2n_translate_protocol_error_to_alert.
S2N_NO_ALERT ==
    { s2n_error_value(name) : name \in
      { "S2N_ERR_ENCRYPT", "S2N_ERR_DECRYPT", "S2N_ERR_KEY_INIT",
        "S2N_ERR_KEY_DESTROY", "S2N_ERR_DH_SERIALIZING",
        "S2N_ERR_DH_SHARED_SECRET", "S2N_ERR_DH_WRITING_PUBLIC_KEY",
        "S2N_ERR_DH_FAILED_SIGNING", "S2N_ERR_DH_COPYING_PARAMETERS",
        "S2N_ERR_DH_GENERATING_PARAMETERS", "S2N_ERR_CIPHER_NOT_SUPPORTED",
        "S2N_ERR_NO_APPLICATION_PROTOCOL", "S2N_ERR_FALLBACK_DETECTED",
        "S2N_ERR_HASH_DIGEST_FAILED", "S2N_ERR_HASH_INIT_FAILED",
        "S2N_ERR_HASH_UPDATE_FAILED", "S2N_ERR_HASH_COPY_FAILED",
        "S2N_ERR_HASH_WIPE_FAILED", "S2N_ERR_HASH_NOT_READY",
        "S2N_ERR_ALLOW_MD5_FOR_FIPS_FAILED", "S2N_ERR_DECODE_CERTIFICATE",
        "S2N_ERR_DECODE_PRIVATE_KEY", "S2N_ERR_INVALID_HELLO_RETRY",
        "S2N_ERR_INVALID_SIGNATURE_ALGORITHM",
        "S2N_ERR_INVALID_SIGNATURE_SCHEME", "S2N_ERR_CBC_VERIFY",
        "S2N_ERR_DH_COPYING_PUBLIC_KEY", "S2N_ERR_SIGN",
        "S2N_ERR_VERIFY_SIGNATURE", "S2N_ERR_ECDHE_GEN_KEY",
        "S2N_ERR_ECDHE_SHARED_SECRET", "S2N_ERR_ECDHE_UNSUPPORTED_CURVE",
        "S2N_ERR_ECDSA_UNSUPPORTED_CURVE", "S2N_ERR_ECDHE_SERIALIZING",
        "S2N_ERR_KEM_UNSUPPORTED_PARAMS", "S2N_ERR_SHUTDOWN_RECORD_TYPE",
        "S2N_ERR_SHUTDOWN_CLOSED", "S2N_ERR_NON_EMPTY_RENEGOTIATION_INFO",
        "S2N_ERR_RECORD_LIMIT", "S2N_ERR_CERT_UNTRUSTED",
        "S2N_ERR_CERT_REVOKED", "S2N_ERR_CERT_EXPIRED",
        "S2N_ERR_CERT_TYPE_UNSUPPORTED", "S2N_ERR_CERT_INVALID",
        "S2N_ERR_CERT_MAX_CHAIN_DEPTH_EXCEEDED", "S2N_ERR_CRL_LOOKUP_FAILED",
        "S2N_ERR_CRL_SIGNATURE", "S2N_ERR_CRL_ISSUER",
        "S2N_ERR_CRL_UNHANDLED_CRITICAL_EXTENSION",
        "S2N_ERR_INVALID_MAX_FRAG_LEN", "S2N_ERR_MAX_FRAG_LEN_MISMATCH",
        "S2N_ERR_PROTOCOL_VERSION_UNSUPPORTED", "S2N_ERR_BAD_KEY_SHARE",
        "S2N_ERR_CANCELLED", "S2N_ERR_PROTOCOL_DOWNGRADE_DETECTED",
        "S2N_ERR_MAX_INNER_PLAINTEXT_SIZE", "S2N_ERR_RECORD_STUFFER_SIZE",
        "S2N_ERR_FRAGMENT_LENGTH_TOO_LARGE",
        "S2N_ERR_FRAGMENT_LENGTH_TOO_SMALL",
        "S2N_ERR_RECORD_STUFFER_NEEDS_DRAINING",
        "S2N_ERR_UNSUPPORTED_EXTENSION", "S2N_ERR_DUPLICATE_EXTENSION",
        "S2N_ERR_MAX_EARLY_DATA_SIZE", "S2N_ERR_EARLY_DATA_TRIAL_DECRYPT" } }

\* As s2n_translate_protocol_error_to_alert, but with a default case that
\* treats every error that is not listed as S2N_NO_ALERT.
s2n_translate_protocol_error_to_alert_with_default(error_code) ==
    IF error_code = S2N_ERR_MISSING_EXTENSION
    THEN Translated(S2N_TLS_ALERT_MISSING_EXTENSION)
    ELSE IF error_code = S2N_ERR_BAD_MESSAGE
    THEN Translated(S2N_TLS_ALERT_UNEXPECTED_MESSAGE)
    ELSE IF error_code = S2N_ERR_NO_RENEGOTIATION
    THEN Translated(S2N_TLS_ALERT_HANDSHAKE_FAILURE)
    ELSE NotTranslated(S2N_ERR_NO_ALERT)

s2n_translate_protocol_error_to_alert(error_code) ==
    IF error_code = S2N_ERR_MISSING_EXTENSION
    THEN Translated(S2N_TLS_ALERT_MISSING_EXTENSION)
    ELSE IF error_code = S2N_ERR_BAD_MESSAGE
    THEN Translated(S2N_TLS_ALERT_UNEXPECTED_MESSAGE)
    ELSE IF error_code = S2N_ERR_NO_RENEGOTIATION
    THEN Translated(S2N_TLS_ALERT_HANDSHAKE_FAILURE)
    ELSE IF error_code \in S2N_NO_ALERT
    THEN NotTranslated(S2N_ERR_NO_ALERT)
    ELSE NotTranslated(S2N_ERR_UNIMPLEMENTED)

\* As s2n_error_get_alert, but with S2N_ERR_T_USAGE among the categories that
\* are reported as internal_error.
s2n_error_get_alert_usage_as_internal(error) ==
    LET type == s2n_error_get_type(error)
    IN  IF type \in { S2N_ERR_T_OK, S2N_ERR_T_CLOSED, S2N_ERR_T_BLOCKED, S2N_ERR_T_ALERT }
        THEN NotTranslated(S2N_ERR_NO_ALERT)
        ELSE IF type = S2N_ERR_T_PROTO
        THEN s2n_translate_protocol_error_to_alert(error)
        ELSE IF type \in { S2N_ERR_T_IO, S2N_ERR_T_INTERNAL, S2N_ERR_T_USAGE }
        THEN Translated(S2N_TLS_ALERT_INTERNAL_ERROR)
        ELSE [rc |-> S2N_SUCCESS, err |-> S2N_ERR_OK, alert |-> << >>]

\* The switch has no default: an error whose type is none of the eight leaves
\* *alert as it was and returns S2N_SUCCESS.
s2n_error_get_alert(error) ==
    LET type == s2n_error_get_type(error)
    IN  IF type \in { S2N_ERR_T_OK, S2N_ERR_T_CLOSED, S2N_ERR_T_BLOCKED,
                      S2N_ERR_T_USAGE, S2N_ERR_T_ALERT }
        THEN NotTranslated(S2N_ERR_NO_ALERT)
        ELSE IF type = S2N_ERR_T_PROTO
        THEN s2n_translate_protocol_error_to_alert(error)
        ELSE IF type \in { S2N_ERR_T_IO, S2N_ERR_T_INTERNAL }
        THEN Translated(S2N_TLS_ALERT_INTERNAL_ERROR)
        ELSE [rc |-> S2N_SUCCESS, err |-> S2N_ERR_OK, alert |-> << >>]

----------------------------------------------------------------------------
(* Outgoing alerts: src/tls/s2n_alerts.c, lines 246-321 *)

S2N_ERR_STUFFER_IS_FULL == s2n_error_value("S2N_ERR_STUFFER_IS_FULL")

\* s2n_stuffer_write(stuffer, &out) on an outgoing slot, which is backed by
\* S2N_ALERT_LENGTH bytes: fails when the bytes do not fit.
s2n_stuffer_write(stuffer, out) ==
    IF s2n_stuffer_data_available(stuffer) + Len(out) > S2N_ALERT_LENGTH
    THEN [ok |-> FALSE, stuffer |-> stuffer]
    ELSE [ok |-> TRUE, stuffer |-> stuffer \o out]

\* As s2n_queue_writer_close_alert_warning, but looking only at the slot and
\* not at close_notify_queued.
s2n_queue_writer_close_alert_warning_while_pending(c) ==
    LET out == << S2N_TLS_ALERT_LEVEL_WARNING, S2N_TLS_ALERT_CLOSE_NOTIFY >>
        w == s2n_stuffer_write(c.writer_alert_out, out)
    IN  IF s2n_stuffer_data_available(c.writer_alert_out) # 0
        THEN Return(c, << >>)
        ELSE IF ~s2n_alerts_supported(c)
        THEN Return(c, << >>)
        ELSE IF ~w.ok
        THEN Bail(c, S2N_ERR_STUFFER_IS_FULL, << >>)
        ELSE Return([c EXCEPT !.writer_alert_out = w.stuffer,
                              !.close_notify_queued = TRUE], << >>)

s2n_queue_writer_close_alert_warning(c) ==
    LET out == << S2N_TLS_ALERT_LEVEL_WARNING, S2N_TLS_ALERT_CLOSE_NOTIFY >>
        w == s2n_stuffer_write(c.writer_alert_out, out)
    IN  IF s2n_stuffer_data_available(c.writer_alert_out) # 0 \/ c.close_notify_queued
        THEN Return(c, << >>)
        ELSE IF ~s2n_alerts_supported(c)
        THEN Return(c, << >>)
        ELSE IF ~w.ok
        THEN Bail(c, S2N_ERR_STUFFER_IS_FULL, << >>)
        ELSE Return([c EXCEPT !.writer_alert_out = w.stuffer,
                              !.close_notify_queued = TRUE], << >>)

\* As s2n_queue_reader_alert, but replacing an alert that is pending.
s2n_queue_reader_alert_overwriting(c, level, error_code) ==
    LET out == << level, error_code >>
        w == s2n_stuffer_write(<< >>, out)
    IN  IF ~s2n_alerts_supported(c)
        THEN Return(c, << >>)
        ELSE IF ~w.ok
        THEN Bail(c, S2N_ERR_STUFFER_IS_FULL, << >>)
        ELSE Return([c EXCEPT !.reader_alert_out = w.stuffer], << >>)

s2n_queue_reader_alert(c, level, error_code) ==
    LET out == << level, error_code >>
        w == s2n_stuffer_write(c.reader_alert_out, out)
    IN  IF s2n_stuffer_data_available(c.reader_alert_out) # 0
        THEN Return(c, << >>)
        ELSE IF ~s2n_alerts_supported(c)
        THEN Return(c, << >>)
        ELSE IF ~w.ok
        THEN Bail(c, S2N_ERR_STUFFER_IS_FULL, << >>)
        ELSE Return([c EXCEPT !.reader_alert_out = w.stuffer], << >>)

s2n_queue_reader_unsupported_protocol_version_alert(c) ==
    s2n_queue_reader_alert(c, S2N_TLS_ALERT_LEVEL_FATAL, S2N_TLS_ALERT_PROTOCOL_VERSION)

s2n_queue_reader_handshake_failure_alert(c) ==
    s2n_queue_reader_alert(c, S2N_TLS_ALERT_LEVEL_FATAL, S2N_TLS_ALERT_HANDSHAKE_FAILURE)

\* As s2n_queue_reader_no_renegotiation_alert, but without the SSLv3 case.
s2n_queue_reader_no_renegotiation_alert_any_version(c) ==
    s2n_queue_reader_alert(c, S2N_TLS_ALERT_LEVEL_WARNING, S2N_TLS_ALERT_NO_RENEGOTIATION)

s2n_queue_reader_no_renegotiation_alert(c) ==
    IF s2n_connection_get_protocol_version(c) = S2N_SSLv3
    THEN s2n_queue_reader_alert(c, S2N_TLS_ALERT_LEVEL_FATAL, S2N_TLS_ALERT_HANDSHAKE_FAILURE)
    ELSE s2n_queue_reader_alert(c, S2N_TLS_ALERT_LEVEL_WARNING, S2N_TLS_ALERT_NO_RENEGOTIATION)

----------------------------------------------------------------------------
(* The connection and the calls made on it *)

\* A connection after s2n_connection_new and the handshake that fixed its
\* version, configuration and session id: no alert byte received, nothing
\* queued, not closed.
InitConnections ==
    { [in |-> << >>,
       alert_in |-> << >>,
       reader_alert_out |-> << >>,
       writer_alert_out |-> << >>,
       closed |-> FALSE,
       closing |-> FALSE,
       close_notify_received |-> FALSE,
       close_notify_queued |-> FALSE,
       actual_protocol_version |-> v,
       alert_behavior |-> b,
       quic_enabled |-> q,
       allowed_to_cache |-> a,
       session_id |-> SessionId,
       session_id_len |-> n] :
      v \in ProtocolVersions, b \in AlertBehaviors, q \in BOOLEAN,
      a \in BOOLEAN, n \in 0..Len(SessionId) }

\* The alert blobs handed to s2n_alerts_close_if_fatal.
AlertBlobs ==
    { << l, d >> : l \in { S2N_TLS_ALERT_LEVEL_WARNING, S2N_TLS_ALERT_LEVEL_FATAL },
                   d \in { S2N_TLS_ALERT_CLOSE_NOTIFY, S2N_TLS_ALERT_NO_RENEGOTIATION } }
    \cup { << S2N_TLS_ALERT_LEVEL_FATAL >>,
           << S2N_TLS_ALERT_LEVEL_WARNING, S2N_TLS_ALERT_NO_RENEGOTIATION, 0 >> }

\* The results the application's cache_delete callback can return.
CallbackResults == { S2N_SUCCESS, S2N_FAILURE }

\* The record payloads the record layer hands over in conn->in.
Records == SeqsUpTo(Bytes, MaxIn)

\* A call op that started from connection c with argument arg and returned
\* r; unread is what the call left in conn->in.
Call(op, c, arg, r) ==
    [op |-> op, conn |-> c, arg |-> arg, rc |-> r.rc, err |-> r.err,
     deleted |-> r.deleted, unread |-> r.conn.in]

\* The record layer wipes conn->in once the record has been handled.
RecordDone(c) == [c EXCEPT !.in = << >>]

NoTwin == [phase |-> "off"]

\* alerts_raised after a call that returned r.
Raised(r) ==
    alerts_raised + (IF r.rc = S2N_FAILURE /\ r.err = S2N_ERR_ALERT THEN 1 ELSE 0)

Init ==
    /\ conn \in InitConnections
    /\ cache = << >>
    /\ last = Call("init", conn, << >>, Return(conn, << >>))
    /\ whole = NoTwin
    /\ sent = << >>
    /\ alerts_raised = 0

\* s2n_process_alert_fragment(conn) on the payload of one alert record, which
\* the record layer has put in conn->in.
ProcessAlertFragment ==
    \E bytes \in Records :
      \E c \in { [conn EXCEPT !.in = bytes] } :
        \E r \in { s2n_process_alert_fragment(c, cb) : cb \in CallbackResults } :
            /\ conn' = RecordDone(r.conn)
            /\ cache' = cache \o r.deleted
            /\ last' = Call("s2n_process_alert_fragment", c, bytes, r)
            /\ alerts_raised' = Raised(r)
            /\ UNCHANGED << whole, sent >>

AlertsCloseIfFatal ==
    \E alert \in AlertBlobs :
      \E r \in { s2n_alerts_close_if_fatal(conn, alert) } :
            /\ conn' = r.conn
            /\ cache' = cache \o r.deleted
            /\ last' = Call("s2n_alerts_close_if_fatal", conn, alert, r)
            /\ UNCHANGED << whole, sent, alerts_raised >>

Next ==
    \/ ProcessAlertFragment
    \/ AlertsCloseIfFatal

Spec == Init /\ [][Next]_vars

----------------------------------------------------------------------------
(* Fragmented against unfragmented delivery of one alert: conn receives     *)
(* [b0] and then [b1] in two calls, whole receives [b0,b1] in one.          *)

Twin(phase, c, r, alert) ==
    [phase |-> phase, conn |-> c, rc |-> r.rc, err |-> r.err,
     deleted |-> r.deleted, alert |-> alert]

InitFrag ==
    /\ conn \in InitConnections
    /\ cache = << >>
    /\ last = Call("init", conn, << >>, Return(conn, << >>))
    /\ whole = Twin("start", conn, Return(conn, << >>), << >>)
    /\ sent = << >>
    /\ alerts_raised = 0

FragFirst ==
    \E b0 \in Bytes, b1 \in Bytes, cb \in CallbackResults :
        LET c == [conn EXCEPT !.in = << b0 >>]
            r == s2n_process_alert_fragment(c, cb)
        IN  /\ whole.phase = "start"
            /\ conn' = RecordDone(r.conn)
            /\ cache' = cache \o r.deleted
            /\ last' = Call("s2n_process_alert_fragment", c, << b0 >>, r)
            /\ alerts_raised' = Raised(r)
            /\ whole' = [whole EXCEPT !.phase = "mid", !.alert = << b0, b1 >>]
            /\ UNCHANGED sent

FragSecond ==
    \E cb \in CallbackResults :
        LET c == [conn EXCEPT !.in = << whole.alert[2] >>]
            r == s2n_process_alert_fragment(c, cb)
            w == s2n_process_alert_fragment([whole.conn EXCEPT !.in = whole.alert], cb)
        IN  /\ whole.phase = "mid"
            /\ conn' = RecordDone(r.conn)
            /\ cache' = cache \o r.deleted
            /\ last' = Call("s2n_process_alert_fragment", c, << whole.alert[2] >>, r)
            /\ alerts_raised' = Raised(r)
            /\ whole' = Twin("done", RecordDone(w.conn), w, whole.alert)
            /\ UNCHANGED sent

NextFrag ==
    \/ FragFirst
    \/ FragSecond

SpecFrag == InitFrag /\ [][NextFrag]_vars

----------------------------------------------------------------------------
(* The outgoing slots: the queueing calls of the handshake and shutdown     *)
(* code, and the record layer taking a queued alert out to write it.        *)

\* How many alerts the record layer writes in a run.
MaxSent == 2

\* The versions a connection that queues alerts can have negotiated.
NegotiatedVersions == ProtocolVersions \cup { S2N_TLS10, S2N_TLS11 }

InitOut ==
    /\ conn \in { [c EXCEPT !.actual_protocol_version = v] :
                    c \in InitConnections, v \in NegotiatedVersions }
    /\ cache = << >>
    /\ last = Call("init", conn, << >>, Return(conn, << >>))
    /\ whole = NoTwin
    /\ sent = << >>
    /\ alerts_raised = 0

\* s2n_queue_writer_close_alert_warning(conn), called by s2n_shutdown.
QueueWriterCloseAlertWarning ==
    \E r \in { s2n_queue_writer_close_alert_warning(conn) } :
        /\ conn' = r.conn
        /\ last' = Call("s2n_queue_writer_close_alert_warning", conn, << >>, r)
        /\ UNCHANGED << cache, whole, sent, alerts_raised >>

QueueReaderUnsupportedProtocolVersionAlert ==
    \E r \in { s2n_queue_reader_unsupported_protocol_version_alert(conn) } :
        /\ conn' = r.conn
        /\ last' = Call("s2n_queue_reader_unsupported_protocol_version_alert", conn, << >>, r)
        /\ UNCHANGED << cache, whole, sent, alerts_raised >>

QueueReaderHandshakeFailureAlert ==
    \E r \in { s2n_queue_reader_handshake_failure_alert(conn) } :
        /\ conn' = r.conn
        /\ last' = Call("s2n_queue_reader_handshake_failure_alert", conn, << >>, r)
        /\ UNCHANGED << cache, whole, sent, alerts_raised >>

QueueReaderNoRenegotiationAlert ==
    \E r \in { s2n_queue_reader_no_renegotiation_alert(conn) } :
        /\ conn' = r.conn
        /\ last' = Call("s2n_queue_reader_no_renegotiation_alert", conn, << >>, r)
        /\ UNCHANGED << cache, whole, sent, alerts_raised >>

\* The record layer writes the pending writer alert and empties its slot.
FlushWriterAlert ==
    /\ s2n_stuffer_data_available(conn.writer_alert_out) = S2N_ALERT_LENGTH
    /\ Len(sent) < MaxSent
    /\ conn' = [conn EXCEPT !.writer_alert_out = << >>]
    /\ sent' = Append(sent, [slot |-> "writer", alert |-> conn.writer_alert_out])
    /\ last' = Call("s2n_flush", conn, << >>, Return(conn', << >>))
    /\ UNCHANGED << cache, whole, alerts_raised >>

\* The record layer writes the pending reader alert and empties its slot.
FlushReaderAlert ==
    /\ s2n_stuffer_data_available(conn.reader_alert_out) = S2N_ALERT_LENGTH
    /\ Len(sent) < MaxSent
    /\ conn' = [conn EXCEPT !.reader_alert_out = << >>]
    /\ sent' = Append(sent, [slot |-> "reader", alert |-> conn.reader_alert_out])
    /\ last' = Call("s2n_flush", conn, << >>, Return(conn', << >>))
    /\ UNCHANGED << cache, whole, alerts_raised >>

NextOut ==
    \/ QueueWriterCloseAlertWarning
    \/ QueueReaderUnsupportedProtocolVersionAlert
    \/ QueueReaderHandshakeFailureAlert
    \/ QueueReaderNoRenegotiationAlert
    \/ FlushWriterAlert
    \/ FlushReaderAlert

SpecOut == InitOut /\ [][NextOut]_vars

----------------------------------------------------------------------------
(* A connection in QUIC mode: the queueing calls and the inbound call *)

InitQuic ==
    /\ conn \in { c \in InitConnections : s2n_connection_is_quic_enabled(c) }
    /\ cache = << >>
    /\ last = Call("init", conn, << >>, Return(conn, << >>))
    /\ whole = NoTwin
    /\ sent = << >>
    /\ alerts_raised = 0

NextQuic ==
    \/ QueueWriterCloseAlertWarning
    \/ QueueReaderUnsupportedProtocolVersionAlert
    \/ QueueReaderHandshakeFailureAlert
    \/ QueueReaderNoRenegotiationAlert
    \/ ProcessAlertFragment

SpecQuic == InitQuic /\ [][NextQuic]_vars

----------------------------------------------------------------------------
(* The error registry and the translation of errors to alerts, applied to   *)
(* the constants of the enum and to the codes around them.                  *)

\* The largest offset of an error code within its category.
MaxErrorOffset == 90

\* One category past the last, so that a code of no category is among them.
ErrorTypes == S2N_ERR_T_OK..(S2N_ERR_T_USAGE + 1)

ErrorCodes == { S2N_ERR_T_START(type) + k : type \in ErrorTypes, k \in 0..MaxErrorOffset }

\* The constants of the enum, the _END sentinels among them.
ErrorNames ==
    UNION { { s2n_error[i].names[k] : k \in 1..Len(s2n_error[i].names) } :
            i \in 1..Len(s2n_error) }

\* These functions take no connection: the one of the state stays as it is.
InitErr ==
    /\ conn = CHOOSE c \in InitConnections : TRUE
    /\ cache = << >>
    /\ last = [op |-> "init"]
    /\ whole = NoTwin
    /\ sent = << >>
    /\ alerts_raised = 0

ErrorGetAlert ==
    \E error \in ErrorCodes :
      \E r \in { s2n_error_get_alert(error) } :
        /\ last' = [op |-> "s2n_error_get_alert", error |-> error,
                    rc |-> r.rc, err |-> r.err, alert |-> r.alert]
        /\ UNCHANGED << conn, cache, whole, sent, alerts_raised >>

ErrorGetType ==
    \E name \in ErrorNames :
      \E error \in { s2n_error_value(name) } :
        /\ last' = [op |-> "s2n_error_get_type", name |-> name, error |-> error,
                    type |-> s2n_error_get_type(error),
                    blocking |-> S2N_ERROR_IS_BLOCKING(error)]
        /\ UNCHANGED << conn, cache, whole, sent, alerts_raised >>

NextErr ==
    \/ ErrorGetAlert
    \/ ErrorGetType

SpecErr == InitErr /\ [][NextErr]_vars

----------------------------------------------------------------------------
(* Coalesced delivery: a record that carries more bytes than the alert      *)
(* being completed needs, on a connection that may have buffered one byte.  *)

\* The longest payload of an alert record.
MaxCoalesced == 3

CoalescedRecords == SeqsUpTo(Bytes, MaxCoalesced)

InitCoalesced ==
    /\ conn \in InitConnections
    /\ cache = << >>
    /\ last = Call("init", conn, << >>, Return(conn, << >>))
    /\ whole = [phase |-> "start"]
    /\ sent = << >>
    /\ alerts_raised = 0

\* A record with the first byte of an alert.
CoalescedFirstByte ==
    /\ whole.phase = "start"
    /\ \E b0 \in Bytes :
         \E c \in { [conn EXCEPT !.in = << b0 >>] } :
           \E r \in { s2n_process_alert_fragment(c, cb) : cb \in CallbackResults } :
            /\ conn' = RecordDone(r.conn)
            /\ cache' = cache \o r.deleted
            /\ last' = Call("s2n_process_alert_fragment", c, << b0 >>, r)
            /\ alerts_raised' = Raised(r)
            /\ whole' = [phase |-> "mid"]
            /\ UNCHANGED sent

\* A record with the rest of the alert and what the peer sent after it.
CoalescedRecord ==
    /\ whole.phase \in { "start", "mid" }
    /\ \E bytes \in CoalescedRecords :
         \E c \in { [conn EXCEPT !.in = bytes] } :
           \E r \in { s2n_process_alert_fragment(c, cb) : cb \in CallbackResults } :
            /\ conn' = RecordDone(r.conn)
            /\ cache' = cache \o r.deleted
            /\ last' = Call("s2n_process_alert_fragment", c, bytes, r)
            /\ alerts_raised' = Raised(r)
            /\ whole' = [phase |-> "done"]
            /\ UNCHANGED sent

NextCoalesced ==
    \/ CoalescedFirstByte
    \/ CoalescedRecord

SpecCoalesced == InitCoalesced /\ [][NextCoalesced]_vars

----------------------------------------------------------------------------
(* The whole engine on one connection: inbound alerts, the queueing calls,  *)
(* s2n_alerts_close_if_fatal and the record layer draining the slots.       *)

\* The payloads of the alert records the peer sends here: nothing, one byte
\* of an alert, or a whole alert.
AlertRecords ==
    { << >> } \cup { << b >> : b \in Bytes } \cup
    { << l, d >> : l \in { S2N_TLS_ALERT_LEVEL_WARNING, S2N_TLS_ALERT_LEVEL_FATAL },
                   d \in { S2N_TLS_ALERT_CLOSE_NOTIFY, S2N_TLS_ALERT_USER_CANCELED,
                           S2N_TLS_ALERT_NO_RENEGOTIATION } }

\* s2n_process_alert_fragment(conn) on one of these records.
ProcessAlertRecord ==
    \E bytes \in AlertRecords :
      \E c \in { [conn EXCEPT !.in = bytes] } :
        \E r \in { s2n_process_alert_fragment(c, cb) : cb \in CallbackResults } :
            /\ conn' = RecordDone(r.conn)
            /\ cache' = cache \o r.deleted
            /\ last' = Call("s2n_process_alert_fragment", c, bytes, r)
            /\ alerts_raised' = Raised(r)
            /\ UNCHANGED << whole, sent >>

NextEngine ==
    \/ ProcessAlertRecord
    \/ AlertsCloseIfFatal
    \/ QueueWriterCloseAlertWarning
    \/ QueueReaderUnsupportedProtocolVersionAlert
    \/ QueueReaderHandshakeFailureAlert
    \/ QueueReaderNoRenegotiationAlert
    \/ FlushWriterAlert

SpecEngine == Init /\ [][NextEngine]_vars

----------------------------------------------------------------------------
(* The last call, as the properties below speak of it *)

\* The connection the last call started from, with its input in conn->in.
Pre == last.conn

IsProcess == last.op = "s2n_process_alert_fragment"

IsCloseIfFatal == last.op = "s2n_alerts_close_if_fatal"

Succeeded == last.rc = S2N_SUCCESS

Failed(error) == last.rc = S2N_FAILURE /\ last.err = error

\* The last call was s2n_process_alert_fragment and none of its preconditions failed.
Passed ==
    /\ IsProcess
    /\ Len(Pre.in) # 0
    /\ Len(Pre.alert_in) # 2
    /\ ~Pre.quic_enabled

\* ... and the input completed the two bytes of an alert.
Complete == Passed /\ Len(Pre.alert_in) + Len(Pre.in) >= 2

\* The alert it completed: what was buffered, then the input.
Alert == SubSeq(Pre.alert_in \o Pre.in, 1, 2)

Level == Alert[1]

Description == Alert[2]

\* The alert took the fatal path: not close_notify, not tolerated.
Fatal ==
    /\ Complete
    /\ Description # S2N_TLS_ALERT_CLOSE_NOTIFY
    /\ ~s2n_process_as_warning(Pre, Level, Description)

----------------------------------------------------------------------------
(* Properties *)

\* C1: starting from an empty reassembly buffer, [b0] and then [b1] in two
\* calls end in the same closed, close_notify_received, reassembly buffer and
\* cache evictions, and the same final result, as [b0,b1] in one call.
C1_FragmentationEquivalence ==
    whole.phase = "done" =>
        /\ conn.closed = whole.conn.closed
        /\ conn.close_notify_received = whole.conn.close_notify_received
        /\ conn.alert_in = whole.conn.alert_in
        /\ cache = whole.deleted
        /\ last.rc = whole.rc
        /\ last.err = whole.err

C1_Witness ==
    /\ whole.phase = "done"
    /\ whole.alert = << S2N_TLS_ALERT_LEVEL_FATAL, S2N_TLS_ALERT_NO_RENEGOTIATION >>
    /\ Len(cache) = 1
    /\ Failed(S2N_ERR_ALERT)
    /\ conn.closed

\* C2: a call of s2n_process_alert_fragment fails with S2N_ERR_ALERT exactly
\* when it completed an alert that is neither close_notify nor tolerated as a
\* warning; the connection is then closed and the error's type is ALERT. No
\* other call fails with S2N_ERR_ALERT.
C2_FatalAlertClosesAndFails ==
    /\ Failed(S2N_ERR_ALERT) <=> Fatal
    /\ Fatal => conn.closed /\ s2n_error_get_type(last.err) = S2N_ERR_T_ALERT

C2_Witness ==
    /\ Fatal
    /\ Alert = << S2N_TLS_ALERT_LEVEL_WARNING, S2N_TLS_ALERT_USER_CANCELED >>
    /\ Pre.alert_behavior = S2N_ALERT_FAIL_ON_WARNINGS
    /\ conn.closed
    /\ Failed(S2N_ERR_ALERT)

\* C3: below TLS1.3 a complete alert other than close_notify is tolerated
\* (success, closed unchanged, no cache eviction) if and only if its level is
\* warning and alert_behavior is S2N_ALERT_IGNORE_WARNINGS, whatever its
\* description.
C3_ToleratedBelowTls13 ==
    (Complete
     /\ Pre.actual_protocol_version < S2N_TLS13
     /\ Description # S2N_TLS_ALERT_CLOSE_NOTIFY)
    => ((Succeeded /\ conn.closed = Pre.closed /\ last.deleted = << >>)
        <=> (Level = S2N_TLS_ALERT_LEVEL_WARNING
             /\ Pre.alert_behavior = S2N_ALERT_IGNORE_WARNINGS))

C3_Witness ==
    /\ Complete
    /\ Pre.actual_protocol_version = S2N_TLS12
    /\ Pre.alert_behavior = S2N_ALERT_IGNORE_WARNINGS
    /\ Alert = << S2N_TLS_ALERT_LEVEL_WARNING, S2N_TLS_ALERT_NO_RENEGOTIATION >>
    /\ Succeeded
    /\ ~conn.closed

C5_CloseNotify ==
    (Complete /\ Description = S2N_TLS_ALERT_CLOSE_NOTIFY)
    => /\ conn.closed
       /\ conn.close_notify_received
       /\ Succeeded
       /\ last.deleted = << >>

C5_Witness ==
    /\ Complete
    /\ Alert = << S2N_TLS_ALERT_LEVEL_FATAL, S2N_TLS_ALERT_CLOSE_NOTIFY >>
    /\ Pre.actual_protocol_version = S2N_TLS13
    /\ Pre.allowed_to_cache
    /\ Pre.session_id_len # 0
    /\ conn.closed
    /\ conn.close_notify_received

\* C6 as claimed: a complete (warning, no_renegotiation) never closes the
\* connection and raises no error, whatever the version and alert_behavior.
C6_NoRenegotiationNeverCloses ==
    (Complete /\ Alert = << S2N_TLS_ALERT_LEVEL_WARNING, S2N_TLS_ALERT_NO_RENEGOTIATION >>)
    => (conn.closed = Pre.closed /\ Succeeded)

\* C6 as amended: a complete (warning, no_renegotiation) leaves closed
\* unchanged and succeeds if and only if the version is below TLS1.3 and
\* alert_behavior is S2N_ALERT_IGNORE_WARNINGS; otherwise the connection is
\* closed and the call fails with S2N_ERR_ALERT.
C6_NoRenegotiationToleratedByVersionAndBehavior ==
    (Complete /\ Alert = << S2N_TLS_ALERT_LEVEL_WARNING, S2N_TLS_ALERT_NO_RENEGOTIATION >>)
    => IF Pre.actual_protocol_version < S2N_TLS13
          /\ Pre.alert_behavior = S2N_ALERT_IGNORE_WARNINGS
       THEN conn.closed = Pre.closed /\ Succeeded
       ELSE conn.closed /\ ~Pre.closed /\ Failed(S2N_ERR_ALERT)

C6_Witness ==
    /\ Complete
    /\ Alert = << S2N_TLS_ALERT_LEVEL_WARNING, S2N_TLS_ALERT_NO_RENEGOTIATION >>
    /\ Pre.actual_protocol_version = S2N_TLS12
    /\ Pre.alert_behavior = S2N_ALERT_FAIL_ON_WARNINGS
    /\ conn.closed
    /\ Failed(S2N_ERR_ALERT)

\* C7 as claimed: a no_renegotiation alert at fatal level fails with an error
\* other than S2N_ERR_ALERT and leaves closed and closing unchanged, both in
\* s2n_alerts_close_if_fatal and in s2n_process_alert_fragment.
C7_FatalNoRenegotiationIsFormatError ==
    /\ (IsCloseIfFatal
        /\ last.arg = << S2N_TLS_ALERT_LEVEL_FATAL, S2N_TLS_ALERT_NO_RENEGOTIATION >>)
       => /\ last.rc = S2N_FAILURE
          /\ last.err # S2N_ERR_ALERT
          /\ conn.closed = Pre.closed
          /\ conn.closing = Pre.closing
    /\ (Complete
        /\ Alert = << S2N_TLS_ALERT_LEVEL_FATAL, S2N_TLS_ALERT_NO_RENEGOTIATION >>)
       => /\ last.rc = S2N_FAILURE
          /\ last.err # S2N_ERR_ALERT
          /\ conn.closed = Pre.closed
          /\ conn.closing = Pre.closing

\* C7 as amended: s2n_alerts_close_if_fatal fails on (fatal, no_renegotiation)
\* with S2N_ERR_SAFETY, an INTERNAL error, and leaves closed and closing
\* unchanged; s2n_process_alert_fragment has no such check: it handles a
\* complete (fatal, no_renegotiation) as a fatal alert, closing the connection
\* and failing with S2N_ERR_ALERT, and leaves closing unchanged.
C7_FatalNoRenegotiationByPath ==
    /\ (IsCloseIfFatal
        /\ last.arg = << S2N_TLS_ALERT_LEVEL_FATAL, S2N_TLS_ALERT_NO_RENEGOTIATION >>)
       => /\ Failed(S2N_ERR_SAFETY)
          /\ s2n_error_get_type(last.err) = S2N_ERR_T_INTERNAL
          /\ conn.closed = Pre.closed
          /\ conn.closing = Pre.closing
    /\ (Complete
        /\ Alert = << S2N_TLS_ALERT_LEVEL_FATAL, S2N_TLS_ALERT_NO_RENEGOTIATION >>)
       => /\ Failed(S2N_ERR_ALERT)
          /\ conn.closed
          /\ conn.closing = Pre.closing

C7_Witness ==
    /\ IsCloseIfFatal
    /\ last.arg = << S2N_TLS_ALERT_LEVEL_FATAL, S2N_TLS_ALERT_NO_RENEGOTIATION >>
    /\ Failed(S2N_ERR_SAFETY)
    /\ conn.alert_in = << S2N_TLS_ALERT_LEVEL_FATAL, S2N_TLS_ALERT_NO_RENEGOTIATION >>
    /\ conn.closed
    /\ ~conn.closing

\* C8 as claimed: s2n_process_alert_fragment fails with S2N_ERR_BAD_MESSAGE
\* when there is no input, when the reassembly buffer already holds two
\* bytes, and when alerts are not supported.
C8_PreconditionsFailWithBadMessage ==
    (IsProcess
     /\ (Len(Pre.in) = 0 \/ Len(Pre.alert_in) = 2 \/ Pre.quic_enabled))
    => Failed(S2N_ERR_BAD_MESSAGE)

\* C8 as amended: with no input the call fails with S2N_ERR_BAD_MESSAGE; with
\* input and two bytes already buffered it fails with S2N_ERR_ALERT_PRESENT,
\* an INTERNAL error; with input, fewer than two bytes buffered and alerts
\* not supported it fails with S2N_ERR_BAD_MESSAGE.
C8_PreconditionErrors ==
    IsProcess =>
        /\ Len(Pre.in) = 0 => Failed(S2N_ERR_BAD_MESSAGE)
        /\ (Len(Pre.in) # 0 /\ Len(Pre.alert_in) = 2)
           => /\ Failed(S2N_ERR_ALERT_PRESENT)
              /\ s2n_error_get_type(last.err) = S2N_ERR_T_INTERNAL
        /\ (Len(Pre.in) # 0 /\ Len(Pre.alert_in) # 2 /\ Pre.quic_enabled)
           => Failed(S2N_ERR_BAD_MESSAGE)

C8_Witness ==
    /\ IsProcess
    /\ Len(Pre.in) = 0
    /\ Len(Pre.alert_in) = 2
    /\ Failed(S2N_ERR_BAD_MESSAGE)

\* C9 as claimed: the reassembly buffer holds 0, 1 or 2 bytes, it is empty
\* after every call that completed an alert, and it never holds 2 bytes
\* between calls.
C9_BufferClearedAfterEveryAlert ==
    /\ Len(conn.alert_in) \in 0..2
    /\ Complete => conn.alert_in = << >>
    /\ Len(conn.alert_in) # 2

\* C9 as amended: the reassembly buffer holds 0, 1 or 2 bytes; a call that
\* completed an alert leaves it empty if the alert was tolerated as a warning,
\* and leaves the two bytes of the alert in it if the alert was close_notify
\* or fatal.
C9_BufferClearedAfterToleratedWarning ==
    /\ Len(conn.alert_in) \in 0..2
    /\ Complete =>
          IF Description # S2N_TLS_ALERT_CLOSE_NOTIFY /\ Succeeded
          THEN conn.alert_in = << >>
          ELSE conn.alert_in = Alert

C9_Witness ==
    /\ Complete
    /\ Description = S2N_TLS_ALERT_USER_CANCELED
    /\ Len(Pre.alert_in) = 1
    /\ Succeeded
    /\ conn.alert_in = << >>

\* C10: a call of s2n_process_alert_fragment calls cache_delete exactly when
\* it completed an alert that took the fatal path, the connection is allowed
\* to be cached and its session id is not empty; it then calls it once, with
\* the session id, before closed is set. No other call calls cache_delete.
C10_CacheDeleteOnFatalPath ==
    /\ last.deleted # << >>
       <=> (Fatal /\ Pre.allowed_to_cache /\ Pre.session_id_len # 0)
    /\ last.deleted # << >>
       => /\ Len(last.deleted) = 1
          /\ last.deleted[1].key = SubSeq(Pre.session_id, 1, Pre.session_id_len)
          /\ last.deleted[1].closed = Pre.closed
          /\ ~Pre.closed
          /\ conn.closed

C10_Witness ==
    /\ Fatal
    /\ Len(Pre.alert_in) = 1
    /\ Len(last.deleted) = 1
    /\ last.deleted[1].key = SessionId
    /\ last.deleted[1].result = S2N_FAILURE
    /\ conn.closed

\* C11: on the fatal path the outcome does not depend on what cache_delete
\* returned: whether the callback succeeded or failed, the connection is
\* closed and the call fails with S2N_ERR_ALERT.
C11_CallbackResultIgnored ==
    (IsProcess /\ last.deleted # << >>)
    => /\ last.deleted[1].result \in CallbackResults
       /\ Fatal
       /\ conn.closed
       /\ Failed(S2N_ERR_ALERT)
       /\ conn.alert_in = Alert

C11_Witness ==
    /\ IsProcess
    /\ Len(last.deleted) = 1
    /\ last.deleted[1].result = S2N_FAILURE
    /\ Pre.actual_protocol_version = S2N_TLS13
    /\ Len(Pre.in) = 2
    /\ conn.closed
    /\ Failed(S2N_ERR_ALERT)

----------------------------------------------------------------------------
(* Properties of the outgoing slots *)

IsQueueWriter == last.op = "s2n_queue_writer_close_alert_warning"

IsQueueReader ==
    last.op \in { "s2n_queue_reader_unsupported_protocol_version_alert",
                  "s2n_queue_reader_handshake_failure_alert",
                  "s2n_queue_reader_no_renegotiation_alert" }

IsFlush == last.op = "s2n_flush"

\* Every alert that was ever put in the writer slot: those the record layer
\* has written, then the one that is pending.
writer_alerts_enqueued ==
    LET written == SelectSeq(sent, LAMBDA m : m.slot = "writer")
    IN  [i \in 1..Len(written) |-> written[i].alert]
        \o (IF conn.writer_alert_out # << >> THEN << conn.writer_alert_out >> ELSE << >>)

\* C12: over any sequence of s2n_queue_writer_close_alert_warning calls and
\* drains of the writer slot, at most one alert is ever put in the writer
\* slot, it is (warning, close_notify), and it is there exactly when
\* close_notify_queued is set, which is never reset. With alerts supported the
\* first call enqueues it and sets close_notify_queued; every later call
\* succeeds and changes nothing, whether the alert is pending or written.
C12_CloseNotifyQueuedOnce ==
    /\ Len(writer_alerts_enqueued) <= 1
    /\ \A i \in 1..Len(writer_alerts_enqueued) :
          writer_alerts_enqueued[i]
              = << S2N_TLS_ALERT_LEVEL_WARNING, S2N_TLS_ALERT_CLOSE_NOTIFY >>
    /\ conn.close_notify_queued <=> Len(writer_alerts_enqueued) = 1
    /\ Pre.close_notify_queued => conn.close_notify_queued
    /\ IsQueueWriter =>
          /\ Succeeded
          /\ s2n_alerts_supported(Pre) => Len(writer_alerts_enqueued) = 1
          /\ (s2n_alerts_supported(Pre) /\ ~Pre.close_notify_queued) =>
                /\ conn.writer_alert_out
                      = << S2N_TLS_ALERT_LEVEL_WARNING, S2N_TLS_ALERT_CLOSE_NOTIFY >>
                /\ conn.close_notify_queued
          /\ Pre.close_notify_queued => conn = Pre

\* A call after the alert was enqueued and written: nothing is enqueued again.
C12_Witness ==
    /\ IsQueueWriter
    /\ Succeeded
    /\ Pre.close_notify_queued
    /\ Pre.writer_alert_out = << >>
    /\ conn.writer_alert_out = << >>
    /\ \E i \in 1..Len(sent) : sent[i].slot = "writer"

\* C13: each outgoing slot holds no byte or exactly two. A reader enqueue
\* while a reader alert is pending succeeds and leaves the pending alert as
\* it is; a reader enqueue changes neither the writer slot nor
\* close_notify_queued, and the writer enqueue does not change the reader slot.
C13_SlotsHoldOneAlertFirstWins ==
    /\ Len(conn.reader_alert_out) \in { 0, S2N_ALERT_LENGTH }
    /\ Len(conn.writer_alert_out) \in { 0, S2N_ALERT_LENGTH }
    /\ (IsQueueReader /\ Pre.reader_alert_out # << >>) =>
          /\ Succeeded
          /\ conn.reader_alert_out = Pre.reader_alert_out
    /\ IsQueueReader =>
          /\ conn.writer_alert_out = Pre.writer_alert_out
          /\ conn.close_notify_queued = Pre.close_notify_queued
    /\ IsQueueWriter => conn.reader_alert_out = Pre.reader_alert_out

\* A no_renegotiation enqueue while (fatal, protocol_version) is pending in the
\* reader slot and close_notify in the writer slot.
C13_Witness ==
    /\ last.op = "s2n_queue_reader_no_renegotiation_alert"
    /\ Pre.reader_alert_out = << S2N_TLS_ALERT_LEVEL_FATAL, S2N_TLS_ALERT_PROTOCOL_VERSION >>
    /\ Pre.writer_alert_out # << >>
    /\ Succeeded
    /\ conn.reader_alert_out = Pre.reader_alert_out

\* The last call found the reader slot empty on a connection that supports alerts.
QueuedInEmptySlot(op) ==
    /\ last.op = op
    /\ Pre.reader_alert_out = << >>
    /\ s2n_alerts_supported(Pre)

\* C14: with an empty reader slot and alerts supported,
\* s2n_queue_reader_no_renegotiation_alert enqueues (fatal, handshake_failure)
\* on SSLv3 and (warning, no_renegotiation) on every other version,
\* s2n_queue_reader_unsupported_protocol_version_alert enqueues
\* (fatal, protocol_version) and s2n_queue_reader_handshake_failure_alert
\* enqueues (fatal, handshake_failure).
C14_ReaderAlertsEnqueued ==
    /\ QueuedInEmptySlot("s2n_queue_reader_no_renegotiation_alert") =>
          /\ Succeeded
          /\ conn.reader_alert_out =
                IF Pre.actual_protocol_version = S2N_SSLv3
                THEN << S2N_TLS_ALERT_LEVEL_FATAL, S2N_TLS_ALERT_HANDSHAKE_FAILURE >>
                ELSE << S2N_TLS_ALERT_LEVEL_WARNING, S2N_TLS_ALERT_NO_RENEGOTIATION >>
    /\ QueuedInEmptySlot("s2n_queue_reader_unsupported_protocol_version_alert") =>
          /\ Succeeded
          /\ conn.reader_alert_out
                = << S2N_TLS_ALERT_LEVEL_FATAL, S2N_TLS_ALERT_PROTOCOL_VERSION >>
    /\ QueuedInEmptySlot("s2n_queue_reader_handshake_failure_alert") =>
          /\ Succeeded
          /\ conn.reader_alert_out
                = << S2N_TLS_ALERT_LEVEL_FATAL, S2N_TLS_ALERT_HANDSHAKE_FAILURE >>

C14_Witness ==
    /\ QueuedInEmptySlot("s2n_queue_reader_no_renegotiation_alert")
    /\ Pre.actual_protocol_version = S2N_SSLv3
    /\ conn.reader_alert_out = << S2N_TLS_ALERT_LEVEL_FATAL, S2N_TLS_ALERT_HANDSHAKE_FAILURE >>
    /\ \E i \in 1..Len(sent) : sent[i].slot = "reader"

\* C15: on a connection in QUIC mode, after any sequence of queueing calls
\* and s2n_process_alert_fragment calls, both outgoing slots are empty,
\* close_notify_queued is false, no call changed the reassembly buffer, closed
\* or close_notify_received, every queueing call returned success and every
\* s2n_process_alert_fragment call failed.
C15_QuicNeitherSendsNorReceives ==
    s2n_connection_is_quic_enabled(conn) =>
        /\ conn.reader_alert_out = << >>
        /\ conn.writer_alert_out = << >>
        /\ ~conn.close_notify_queued
        /\ conn.alert_in = Pre.alert_in
        /\ conn.closed = Pre.closed
        /\ conn.close_notify_received = Pre.close_notify_received
        /\ (IsQueueReader \/ IsQueueWriter) => Succeeded
        /\ IsProcess => last.rc = S2N_FAILURE

\* A whole close_notify alert delivered to a connection in QUIC mode.
C15_Witness ==
    /\ IsProcess
    /\ s2n_connection_is_quic_enabled(Pre)
    /\ Pre.in = << S2N_TLS_ALERT_LEVEL_WARNING, S2N_TLS_ALERT_CLOSE_NOTIFY >>
    /\ last.rc = S2N_FAILURE
    /\ last.unread = Pre.in
    /\ ~conn.close_notify_received

----------------------------------------------------------------------------
(* Properties of the error registry and of the translation to alerts *)

IsGetAlert == last.op = "s2n_error_get_alert"

IsGetType == last.op = "s2n_error_get_type"

\* C16: outside S2N_ERR_T_PROTO s2n_error_get_alert looks at the category
\* only: every code of category OK, CLOSED, BLOCKED, USAGE or ALERT fails
\* with S2N_ERR_NO_ALERT and writes no alert, every code of category IO or
\* INTERNAL succeeds with internal_error.
C16_AlertByCategory ==
    IsGetAlert =>
        /\ s2n_error_get_type(last.error)
              \in { S2N_ERR_T_OK, S2N_ERR_T_CLOSED, S2N_ERR_T_BLOCKED,
                    S2N_ERR_T_USAGE, S2N_ERR_T_ALERT }
           => /\ Failed(S2N_ERR_NO_ALERT)
              /\ last.alert = << >>
        /\ s2n_error_get_type(last.error) \in { S2N_ERR_T_IO, S2N_ERR_T_INTERNAL }
           => /\ Succeeded
              /\ last.alert = << S2N_TLS_ALERT_INTERNAL_ERROR >>

\* A usage error that no constant of the enum names.
C16_Witness ==
    /\ IsGetAlert
    /\ last.error = S2N_ERR_T_START(S2N_ERR_T_USAGE) + MaxErrorOffset
    /\ Failed(S2N_ERR_NO_ALERT)

IsProtocolError == IsGetAlert /\ s2n_error_get_type(last.error) = S2N_ERR_T_PROTO

\* The alert the translator's table maps an error to, one or none.
DocumentedAlert(error) ==
    IF error = S2N_ERR_MISSING_EXTENSION THEN << S2N_TLS_ALERT_MISSING_EXTENSION >>
    ELSE IF error = S2N_ERR_BAD_MESSAGE THEN << S2N_TLS_ALERT_UNEXPECTED_MESSAGE >>
    ELSE IF error = S2N_ERR_NO_RENEGOTIATION THEN << S2N_TLS_ALERT_HANDSHAKE_FAILURE >>
    ELSE << >>

\* C17, as stated: a PROTOCOL-category code gets its documented alert when it
\* is in the mapping table, and otherwise fails with S2N_ERR_UNIMPLEMENTED and
\* with no other error.
C17_UnmappedFailUnimplemented ==
    IsProtocolError =>
        IF DocumentedAlert(last.error) # << >>
        THEN Succeeded /\ last.alert = DocumentedAlert(last.error)
        ELSE Failed(S2N_ERR_UNIMPLEMENTED) /\ last.alert = << >>

\* C17, amended: a PROTOCOL-category code gets its documented alert when it is
\* in the mapping table, fails with S2N_ERR_NO_ALERT when the translator lists
\* it with S2N_NO_ALERT, and fails with S2N_ERR_UNIMPLEMENTED otherwise; no
\* code outside the mapping table gets an alert.
C17_UnmappedFailNoAlertOrUnimplemented ==
    IsProtocolError =>
        IF DocumentedAlert(last.error) # << >>
        THEN Succeeded /\ last.alert = DocumentedAlert(last.error)
        ELSE IF last.error \in S2N_NO_ALERT
        THEN Failed(S2N_ERR_NO_ALERT) /\ last.alert = << >>
        ELSE Failed(S2N_ERR_UNIMPLEMENTED) /\ last.alert = << >>

\* S2N_ERR_ENCRYPT, the first error listed with S2N_NO_ALERT.
C17_Witness ==
    /\ IsProtocolError
    /\ last.error = s2n_error_value("S2N_ERR_ENCRYPT")
    /\ Failed(S2N_ERR_NO_ALERT)

\* The PROTOCOL-category constants of the enum, S2N_ERR_ENCRYPT to
\* S2N_ERR_KTLS_KEYUPDATE: the section without its sentinel.
ProtocolConstants ==
    { s2n_error_value(s2n_error_PROTO[k]) : k \in 1..(Len(s2n_error_PROTO) - 1) }

\* C18: every PROTOCOL-category constant of the enum has a case in the
\* translator, a mapped alert or an S2N_NO_ALERT entry: for none of them does
\* s2n_error_get_alert fail with the fall-through S2N_ERR_UNIMPLEMENTED.
C18_EveryProtocolConstantHasACase ==
    (IsGetAlert /\ last.error \in ProtocolConstants) => ~Failed(S2N_ERR_UNIMPLEMENTED)

\* The sections of the enum that declare the constant `name`.
SectionsOf(name) ==
    { i \in 1..Len(s2n_error) :
        \E k \in 1..Len(s2n_error[i].names) : s2n_error[i].names[k] = name }

\* C19: for every constant of the enum, the _END sentinels among them, the
\* value shifted right by S2N_ERR_NUM_VALUE_BITS is the category of the one
\* section that declares it, one of the eight; the numbering of no section
\* reaches the start of the next category; and S2N_ERROR_IS_BLOCKING holds of
\* exactly the constants of the S2N_ERR_T_BLOCKED section.
C19_CategoryBitsMatchSection ==
    IsGetType =>
        /\ Cardinality(SectionsOf(last.name)) = 1
        /\ \A i \in SectionsOf(last.name) :
              /\ last.type = s2n_error[i].type
              /\ last.error >= S2N_ERR_T_START(s2n_error[i].type)
              /\ last.error < S2N_ERR_T_START(s2n_error[i].type + 1)
              /\ last.blocking <=> s2n_error[i].type = S2N_ERR_T_BLOCKED
        /\ last.type \in S2N_ERR_T_OK..S2N_ERR_T_USAGE
        /\ last.blocking <=>
              \E k \in 1..Len(s2n_error_BLOCKED) : s2n_error_BLOCKED[k] = last.name

\* The sentinel that closes the S2N_ERR_T_BLOCKED section.
C19_Witness ==
    /\ IsGetType
    /\ last.name = "S2N_ERR_T_BLOCKED_END"
    /\ last.type = S2N_ERR_T_BLOCKED
    /\ last.blocking

----------------------------------------------------------------------------
(* Properties of coalesced delivery *)

\* The last call was s2n_process_alert_fragment with n >= 1 bytes of input
\* and b < 2 bytes buffered.
HadInput ==
    /\ IsProcess
    /\ Len(Pre.in) >= 1
    /\ Len(Pre.alert_in) \in { 0, 1 }

\* min(n, 2 - b)
Needed == MIN(Len(Pre.in), S2N_ALERT_LENGTH - Len(Pre.alert_in))

\* The call took exactly Needed bytes from the input, acted on no more than
\* the one alert they complete, and left what follows it unread.
ConsumedOneAlertAtMost ==
    /\ last.unread = SubSeq(Pre.in, Needed + 1, Len(Pre.in))
    /\ conn.alert_in \in { << >>, Pre.alert_in \o SubSeq(Pre.in, 1, Needed) }
    /\ Len(last.deleted) <= 1
    /\ Len(Pre.alert_in) + Needed < S2N_ALERT_LENGTH =>
          /\ Succeeded
          /\ conn.closed = Pre.closed
          /\ conn.close_notify_received = Pre.close_notify_received
          /\ last.deleted = << >>
    /\ Len(Pre.alert_in) + Needed = S2N_ALERT_LENGTH =>
          /\ Description = S2N_TLS_ALERT_CLOSE_NOTIFY =>
                Succeeded /\ last.deleted = << >>
          /\ Description # S2N_TLS_ALERT_CLOSE_NOTIFY =>
                conn.close_notify_received = Pre.close_notify_received
          /\ (/\ Description # S2N_TLS_ALERT_CLOSE_NOTIFY
              /\ s2n_process_as_warning(Pre, Level, Description)) =>
                /\ Succeeded
                /\ conn.closed = Pre.closed
                /\ last.deleted = << >>

\* C20, as stated: a call with n >= 1 bytes of input and b in {0,1} bytes
\* buffered consumes exactly min(n, 2 - b) bytes, dispatches at most one alert
\* and leaves the bytes that follow it unread.
C20_ConsumesNeededBytes ==
    HadInput => ConsumedOneAlertAtMost

\* C20, amended: the same on a connection that supports alerts; in QUIC mode
\* the call fails before it reads a byte.
C20_ConsumesNeededBytesWhenSupported ==
    /\ (HadInput /\ s2n_alerts_supported(Pre)) => ConsumedOneAlertAtMost
    /\ (HadInput /\ ~s2n_alerts_supported(Pre)) =>
          /\ Failed(S2N_ERR_BAD_MESSAGE)
          /\ last.unread = Pre.in
          /\ conn.alert_in = Pre.alert_in

\* One byte buffered, then a record with the second byte of a tolerated
\* user_canceled and a whole close_notify after it, which stays unread.
C20_Witness ==
    /\ HadInput
    /\ s2n_alerts_supported(Pre)
    /\ Pre.actual_protocol_version = S2N_TLS13
    /\ Pre.alert_in = << S2N_TLS_ALERT_LEVEL_WARNING >>
    /\ Pre.in = << S2N_TLS_ALERT_USER_CANCELED,
                   S2N_TLS_ALERT_LEVEL_WARNING, S2N_TLS_ALERT_CLOSE_NOTIFY >>
    /\ Succeeded
    /\ last.unread = << S2N_TLS_ALERT_LEVEL_WARNING, S2N_TLS_ALERT_CLOSE_NOTIFY >>
    /\ ~conn.close_notify_received

----------------------------------------------------------------------------
(* Properties of the closing flags *)

\* C21: s2n_alerts_close_if_fatal treats one alert as a warning. For a
\* two-byte alert whose description is not no_renegotiation it succeeds and
\* sets closing, whatever the level byte; for (warning, no_renegotiation) it
\* succeeds and leaves closing as it was, and that is the only alert it
\* succeeds on without closing set; for a blob that is not two bytes long it
\* fails and leaves closing as it was. It never changes closed.
C21_CloseIfFatalWarnsOnlyOnNoRenegotiation ==
    IsCloseIfFatal =>
        /\ conn.closed = Pre.closed
        /\ (/\ Len(last.arg) = S2N_ALERT_LENGTH
            /\ last.arg[2] # S2N_TLS_ALERT_NO_RENEGOTIATION) =>
              Succeeded /\ conn.closing
        /\ last.arg = << S2N_TLS_ALERT_LEVEL_WARNING, S2N_TLS_ALERT_NO_RENEGOTIATION >> =>
              Succeeded /\ conn.closing = Pre.closing
        /\ Len(last.arg) # S2N_ALERT_LENGTH =>
              last.rc = S2N_FAILURE /\ conn.closing = Pre.closing
        /\ (Succeeded /\ ~conn.closing) =>
              last.arg = << S2N_TLS_ALERT_LEVEL_WARNING, S2N_TLS_ALERT_NO_RENEGOTIATION >>

\* A close_notify of level warning sets closing on a connection that is open.
C21_Witness ==
    /\ IsCloseIfFatal
    /\ last.arg = << S2N_TLS_ALERT_LEVEL_WARNING, S2N_TLS_ALERT_CLOSE_NOTIFY >>
    /\ Succeeded
    /\ ~Pre.closing
    /\ conn.closing
    /\ ~conn.closed

\* C22: once s2n_process_alert_fragment has dispatched a close_notify or a
\* fatal alert, which is when closed is set, the two bytes of that alert stay
\* in the reassembly buffer, and every later call fails at a precondition
\* check without consuming input, changing the buffer or calling
\* cache_delete. So over any sequence of calls cache_delete is called at most
\* once and S2N_ERR_ALERT is raised at most once.
C22_OneDispatchPerConnection ==
    /\ Len(cache) <= 1
    /\ alerts_raised <= 1
    /\ conn.closed => Len(conn.alert_in) = S2N_ALERT_LENGTH
    /\ (Complete /\ (Description = S2N_TLS_ALERT_CLOSE_NOTIFY \/ Fatal)) =>
          /\ conn.closed
          /\ conn.alert_in = Alert
    /\ (IsProcess /\ Pre.closed) =>
          /\ last.rc = S2N_FAILURE
          /\ last.err \in { S2N_ERR_BAD_MESSAGE, S2N_ERR_ALERT_PRESENT }
          /\ last.unread = Pre.in
          /\ last.deleted = << >>
          /\ conn.alert_in = Pre.alert_in
          /\ conn.closed

\* A second fatal alert arrives after the first one was dispatched.
C22_Witness ==
    /\ IsProcess
    /\ Pre.closed
    /\ ~Pre.close_notify_received
    /\ Len(Pre.in) = S2N_ALERT_LENGTH
    /\ Pre.in[1] = S2N_TLS_ALERT_LEVEL_FATAL
    /\ Failed(S2N_ERR_ALERT_PRESENT)
    /\ alerts_raised = 1
    /\ Len(cache) = 1

\* The last call was s2n_process_alert_fragment and one of its preconditions
\* did not hold: no input, a whole alert already buffered, or no alerts on
\* this connection.
PreconditionFailed ==
    /\ IsProcess
    /\ \/ Len(Pre.in) = 0
       \/ Len(Pre.alert_in) = S2N_ALERT_LENGTH
       \/ ~s2n_alerts_supported(Pre)

\* C23: when s2n_process_alert_fragment fails one of its preconditions the
\* connection is as it was: the call fails, no input byte is consumed, the
\* reassembly buffer, closed, close_notify_received and both outgoing slots
\* keep their values, as does every other field, and cache_delete is not called.
C23_PreconditionFailureChangesNothing ==
    PreconditionFailed =>
        /\ last.rc = S2N_FAILURE
        /\ last.unread = Pre.in
        /\ conn.alert_in = Pre.alert_in
        /\ conn.closed = Pre.closed
        /\ conn.close_notify_received = Pre.close_notify_received
        /\ conn.reader_alert_out = Pre.reader_alert_out
        /\ conn.writer_alert_out = Pre.writer_alert_out
        /\ conn = RecordDone(Pre)
        /\ last.deleted = << >>

\* An alert arrives after a fatal one was dispatched, with an alert pending in
\* each outgoing slot, on a connection whose session is cached.
C23_Witness ==
    /\ PreconditionFailed
    /\ Len(Pre.in) = S2N_ALERT_LENGTH
    /\ Len(Pre.alert_in) = S2N_ALERT_LENGTH
    /\ Pre.reader_alert_out # << >>
    /\ Pre.writer_alert_out # << >>
    /\ s2n_allowed_to_cache_connection(Pre)
    /\ Failed(S2N_ERR_ALERT_PRESENT)
    /\ conn.reader_alert_out = Pre.reader_alert_out
    /\ Len(cache) = 1

\* What holds of the flags and of the writer slot in every state.
FlagsConsistent ==
    /\ conn.close_notify_received => conn.closed
    /\ conn.writer_alert_out # << >> =>
          /\ conn.close_notify_queued
          /\ conn.writer_alert_out
                = << S2N_TLS_ALERT_LEVEL_WARNING, S2N_TLS_ALERT_CLOSE_NOTIFY >>

\* What holds of the flags in every step.
FlagsStaySet ==
    /\ conn.closed => conn'.closed
    /\ conn.close_notify_received => conn'.close_notify_received
    /\ conn.close_notify_queued => conn'.close_notify_queued

\* C24: in every state the engine's operations reach, close_notify_received
\* implies closed, and a writer slot that is not empty holds (warning,
\* close_notify) with close_notify_queued set; no operation resets closed,
\* close_notify_received or close_notify_queued from true to false.
C24_FlagsConsistentAndMonotonic ==
    []FlagsConsistent /\ [][FlagsStaySet]_vars

\* A close_notify was received while this side's own close_notify was pending
\* in the writer slot.
C24_Witness ==
    /\ IsProcess
    /\ ~Pre.closed
    /\ Pre.close_notify_queued
    /\ conn.close_notify_received
    /\ conn.closed
    /\ conn.close_notify_queued
    /\ conn.writer_alert_out = << S2N_TLS_ALERT_LEVEL_WARNING, S2N_TLS_ALERT_CLOSE_NOTIFY >>

====
